---- MODULE Spec2Model ----
(***************************************************************************)
(* Verification model of snippet-checker: the timed-output builder         *)
(* (DockerExecutor.exec_run_timed feeding Output._to_string) and the       *)
(* per-language output normalisers (PythonOutput, GoOutput); then the      *)
(* comparison (Question.has_ok_output), the escaping of Anki note fields,  *)
(* DirectoryRepository.get, a run of the command line (cli.app with        *)
(* check_output / check_formatting over a repository), and the container   *)
(* pool of DockerExecutor.                                                 *)
(*                                                                         *)
(* Text is a sequence of one-character strings; a few fixed literals of    *)
(* the regular expressions ("Traceback (most recent call last):",          *)
(* "panic: ", ...) are kept as single elements.  Bytes are integers.       *)
(* Time is counted in half seconds, so that the ties of round() occur.     *)
(***************************************************************************)
EXTENDS Integers, Sequences, FiniteSets, TLC

VARIABLES
    now,        \* exec_run_timed: time.perf_counter(), in half seconds
    previous,   \* exec_run_timed: local `previous`
    logs,       \* exec_run_timed: local `logs`, list of (delta, chunk)
    bpc,        \* position of the builder: "idle", "streaming", "to_string", "done"
    idx,        \* _to_string: number of entries of logs already consumed
    output,     \* _to_string: local `output` (bytes)
    raw,        \* Output.raw
    language,   \* which Output subclass normalises: "python" or "go"
    verbosity,  \* output_verbosity argument of normalise
    given,      \* the `output` argument of the current call of normalise
    normalised, \* normalise: local `normalised` / `output`
    stage,      \* position inside normalise
    pass,       \* how many times normalise has been entered
    given_output, \* Question.given_output
    ok,         \* what Question.has_ok_output returned (FALSE before the call)
    plain,      \* the text handed to escape_html / markup_output / markup_code
    code_lang,  \* the language argument of markup_code
    field,      \* the html of an Anki note field
    back,       \* what unescape_html / markdown_output / markdown_code returned
    epc,        \* position of the escaping round trip
    root_config, \* DirectoryRepository.root_config
    tree,       \* the target directory: its folders in the order of dir.walk()
    got,        \* what DirectoryRepository.get did: the questions, or the raise
    dpc,        \* position of the caller of DirectoryRepository.get
    store,      \* which Repository cli.app built: "directory" or "anki"
    notes,      \* what the repository persists, one record per question
    programs,   \* what each question's snippet does when built, run, formatted
    pool,       \* DockerExecutor._container_pool: image -> content of its /tmp
    command,    \* args.command: "output" or "format"
    mode,       \* args.mode: "check", "interactive" or "fix"
    response,   \* what the user types whenever input() asks
    questions,  \* check_output / check_formatting: questions_to_check
    position,   \* index of the question the loop is at
    failed,     \* check_output / check_formatting: local `failed` (ids)
    fixed,      \* local `fixed` (ids)
    ignored,    \* local `ignored` (ids)
    prompts,    \* how many times get_user_input has been called
    calls,      \* the calls made to fix_output, fix_formatting, add_tag
    rpc,        \* position of the run
    exit_code,  \* exit status of the process ("none" while it runs)
    daemon,     \* the containers the docker daemon was asked to run, in order
    local_images, \* the images the docker host holds
    uses,       \* the calls of write / exec_run / exec_run_timed that returned
    ppc         \* position of the process that uses the DockerExecutor

bvars == <<now, previous, logs, bpc, idx, output, raw>>
nvars == <<language, verbosity, given, normalised, stage, pass>>
qvars == <<given_output, ok>>
evars == <<plain, code_lang, field, back, epc>>
dvars == <<root_config, tree, got, dpc>>
rvars == <<store, notes, programs, pool, command, mode, response, questions,
           position, failed, fixed, ignored, prompts, calls, rpc, exit_code>>
pvars == <<daemon, local_images, uses, ppc>>
wvars == <<qvars, evars, dvars, rvars, pvars>>
vars == <<now, previous, logs, bpc, idx, output, raw,
          language, verbosity, given, normalised, stage, pass, wvars>>

\* the parts of the state a specification does not use stay as constructed
QuestionIdle == given_output = <<>> /\ ok = FALSE
EscapeIdle ==
    plain = <<>> /\ code_lang = <<>> /\ field = <<>> /\ back = <<>> /\ epc = "idle"
DirectoryIdle ==
    root_config = <<>> /\ tree = <<>> /\ got = <<>> /\ dpc = "idle"
RunIdle ==
    /\ store = "none" /\ notes = <<>> /\ programs = <<>> /\ pool = <<>>
    /\ command = "none" /\ mode = "none" /\ response = "none"
    /\ questions = <<>> /\ position = 0
    /\ failed = <<>> /\ fixed = <<>> /\ ignored = <<>>
    /\ prompts = 0 /\ calls = <<>> /\ rpc = "idle" /\ exit_code = "none"
PoolIdle ==
    daemon = <<>> /\ local_images = {} /\ uses = <<>> /\ ppc = "idle"

----------------------------------------------------------------------------
(* Bounds *)

MaxTime == 5        \* the stream is observed for at most MaxTime half seconds
MaxChunks == 3      \* at most MaxChunks chunks arrive on the stream
MaxLines == 4       \* a raw output has at most MaxLines lines
MaxItems == 3       \* an address line has at most MaxItems pieces
MaxPasses == 2      \* normalise is applied at most MaxPasses times in a row

----------------------------------------------------------------------------
(* Generic sequence helpers *)

RECURSIVE Flatten(_)
Flatten(ss) == IF ss = <<>> THEN <<>> ELSE Head(ss) \o Flatten(Tail(ss))

\* does pat occur in s at position i (1-based)?
OccursAt(s, pat, i) ==
    /\ i >= 1
    /\ i + Len(pat) - 1 <= Len(s)
    /\ \A k \in 1..Len(pat) : s[i + k - 1] = pat[k]

Contains(s, pat) == \E i \in 1..Len(s) : OccursAt(s, pat, i)

\* str.replace(old, new) / bytes.replace: every non-overlapping occurrence of
\* old, scanning left to right, is replaced by new (old is never empty here)
RECURSIVE ReplaceFrom(_, _, _, _)
ReplaceFrom(s, old, new, i) ==
    IF i > Len(s) THEN <<>>
    ELSE IF OccursAt(s, old, i)
         THEN new \o ReplaceFrom(s, old, new, i + Len(old))
         ELSE <<s[i]>> \o ReplaceFrom(s, old, new, i + 1)

StrReplace(s, old, new) == ReplaceFrom(s, old, new, 1)

----------------------------------------------------------------------------
(* Timed-output builder *)

\* Python's round() on a float that is h half seconds: ties go to the even
\* integer (round(0.5) = 0, round(1.5) = 2, round(2.5) = 2)
Round(h) ==
    IF h % 2 = 0 THEN h \div 2
    ELSE LET k == (h - 1) \div 2 IN IF k % 2 = 0 THEN k ELSE k + 1

\* str(n) for an integer, encoded as UTF-8 bytes
RECURSIVE DecimalBytes(_)
DecimalBytes(n) ==
    IF n < 0 THEN <<45>> \o DecimalBytes(0 - n)
    ELSE IF n < 10 THEN <<48 + n>>
    ELSE DecimalBytes(n \div 10) \o <<48 + (n % 10)>>

\* bytes(f"<~{rounded_delta}s>\n", "utf-8")
MarkerBytes(n) == <<60, 126>> \o DecimalBytes(n) \o <<115, 62, 10>>

\* the payloads a chunk of the stream may carry: b"", b"h", b"\r", b"\n",
\* b"h\r\n" (the exec runs with tty=True, which ends lines with \r\n)
ChunkPayloads == { <<>>, <<104>>, <<13>>, <<10>>, <<104, 13, 10>> }

\* bytes.decode("utf-8") of one ASCII byte
AsciiChar(b) ==
    CASE b = 10 -> "\n"
      [] b = 13 -> "\r"
      [] b = 45 -> "-"
      [] b = 48 -> "0" [] b = 49 -> "1" [] b = 50 -> "2" [] b = 51 -> "3"
      [] b = 52 -> "4" [] b = 53 -> "5" [] b = 54 -> "6" [] b = 55 -> "7"
      [] b = 56 -> "8" [] b = 57 -> "9"
      [] b = 60 -> "<"
      [] b = 62 -> ">"
      [] b = 104 -> "h"
      [] b = 115 -> "s"
      [] b = 126 -> "~"

Decode(bs) == [i \in 1..Len(bs) |-> AsciiChar(bs[i])]

\* the loop body with the `rounded_delta == 0` test lost: a marker always
ToStringBodyAlwaysMarker(out, entry) ==
    (out \o MarkerBytes(Round(entry.delta))) \o entry.char

\* the loop body of _to_string for one (delta, char) entry
ToStringBody(out, entry) ==
    LET rounded_delta == Round(entry.delta) IN
    IF rounded_delta = 0 THEN out \o entry.char
    ELSE (out \o MarkerBytes(rounded_delta)) \o entry.char

\* the return statement of _to_string
ToStringReturn(out) == StrReplace(Decode(out), <<"\r", "\n">>, <<"\n">>)

\* container.exec_run(..., stream=True) has been called
StartStream ==
    /\ bpc = "idle"
    /\ bpc' = "streaming"
    /\ previous' = now
    /\ logs' = <<>>
    /\ UNCHANGED <<now, idx, output, raw>>
    /\ UNCHANGED nvars
    /\ UNCHANGED wvars

\* time passes while the loop waits for the next chunk
Tick ==
    /\ bpc = "streaming"
    /\ now < MaxTime
    /\ now' = now + 1
    /\ UNCHANGED <<previous, logs, bpc, idx, output, raw>>
    /\ UNCHANGED nvars
    /\ UNCHANGED wvars

\* one iteration of `for chunk in output_stream`
ReceiveChunk ==
    /\ bpc = "streaming"
    /\ Len(logs) < MaxChunks
    /\ \E chunk \in ChunkPayloads :
          logs' = Append(logs, [delta |-> now - previous, char |-> chunk])
    /\ previous' = now
    /\ UNCHANGED <<now, bpc, idx, output, raw>>
    /\ UNCHANGED nvars
    /\ UNCHANGED wvars

\* the stream ends: exec_run_timed returns logs, Output.__init__ enters
\* _to_string; the locals of exec_run_timed are gone
EndStream ==
    /\ bpc = "streaming"
    /\ bpc' = "to_string"
    /\ idx' = 0
    /\ output' = <<>>
    /\ now' = 0
    /\ previous' = 0
    /\ UNCHANGED <<logs, raw>>
    /\ UNCHANGED nvars
    /\ UNCHANGED wvars

\* one iteration of `for delta, char in logs`
ToStringStep ==
    /\ bpc = "to_string"
    /\ idx < Len(logs)
    /\ output' = ToStringBody(output, logs[idx + 1])
    /\ idx' = idx + 1
    /\ UNCHANGED <<now, previous, logs, bpc, raw>>
    /\ UNCHANGED nvars
    /\ UNCHANGED wvars

\* `return output.decode("utf-8").replace("\r\n", "\n")`, stored in self.raw
ToStringDone ==
    /\ bpc = "to_string"
    /\ idx = Len(logs)
    /\ raw' = ToStringReturn(output)
    /\ bpc' = "done"
    /\ UNCHANGED <<now, previous, logs, idx, output>>
    /\ UNCHANGED nvars
    /\ UNCHANGED wvars

BuilderInit ==
    /\ now = 0
    /\ previous = 0
    /\ logs = <<>>
    /\ bpc = "idle"
    /\ idx = 0
    /\ output = <<>>
    /\ raw = <<>>
    /\ language = "python"
    /\ verbosity = 0
    /\ given = <<>>
    /\ normalised = <<>>
    /\ stage = "idle"
    /\ pass = 0
    /\ QuestionIdle /\ EscapeIdle /\ DirectoryIdle /\ RunIdle /\ PoolIdle

BuilderNext ==
    \/ StartStream
    \/ Tick
    \/ ReceiveChunk
    \/ EndStream
    \/ ToStringStep
    \/ ToStringDone

SpecBuilder == BuilderInit /\ [][BuilderNext]_vars

----------------------------------------------------------------------------
(* Text elements and character classes of the regular expressions *)

\* literals of the regular expressions, each kept as one element of a text
TRACEBACK == "Traceback (most recent call last):"
FILE_STRING == "File \"<string>\", line"
FILE_TMP == "File \"/tmp/main.py\", line"
PANIC == "panic: "
RT_EXCEEDS == "runtime: goroutine stack exceeds"
LIMIT == "limit"
RUNTIME == "runtime:"
FATAL == "fatal error: stack overflow"

\* [0-9A-Fa-f]
HexDigit == {"0", "1", "2", "3", "4", "5", "6", "7", "8", "9",
             "a", "b", "c", "d", "e", "f", "A", "B", "C", "D", "E", "F"}

\* \s
IsSpace(c) == c \in {" ", "\n", "\r", "\t"}

\* is the first (last) character of an element a word character (\w)?
StartsWord(c) == c \notin {" ", "\n", "\r", "\t", ".", "<", ">", "~", "-"}
EndsWord(c) == StartsWord(c) /\ c \notin {TRACEBACK, PANIC, RUNTIME}

\* index of the first "\n" at or after position i, 0 when there is none
RECURSIVE NextNewline(_, _)
NextNewline(s, i) ==
    IF i > Len(s) THEN 0
    ELSE IF s[i] = "\n" THEN i
    ELSE NextNewline(s, i + 1)

----------------------------------------------------------------------------
(* Memory addresses: re.finditer(memory_address, output) and the loop *)

\* last index of the run of hex digits that starts at i (i - 1 when empty)
RECURSIVE HexRunEnd(_, _)
HexRunEnd(s, i) ==
    IF i <= Len(s) /\ s[i] \in HexDigit THEN HexRunEnd(s, i + 1) ELSE i - 1

\* does \b0x[0-9A-Fa-f]+\b match at position i?  The digits are matched
\* greedily and a shorter run never ends at a word boundary.
AddressAt(s, i) ==
    /\ i + 2 <= Len(s)
    /\ s[i] = "0"
    /\ s[i + 1] = "x"
    /\ i = 1 \/ ~EndsWord(s[i - 1])
    /\ LET e == HexRunEnd(s, i + 2) IN
          /\ e >= i + 2
          /\ e = Len(s) \/ ~StartsWord(s[e + 1])

\* the matches of re.finditer, left to right, non-overlapping
RECURSIVE FindAddresses(_, _)
FindAddresses(s, i) ==
    IF i > Len(s) THEN <<>>
    ELSE IF AddressAt(s, i)
         THEN LET e == HexRunEnd(s, i + 2) IN
              <<SubSeq(s, i, e)>> \o FindAddresses(s, e + 1)
         ELSE FindAddresses(s, i + 1)

\* hex(n) without its "0x"
RECURSIVE HexDigits(_)
HexDigits(n) ==
    LET d == <<"0", "1", "2", "3", "4", "5", "6", "7", "8", "9",
               "a", "b", "c", "d", "e", "f">> IN
    IF n < 16 THEN <<d[n + 1]>> ELSE HexDigits(n \div 16) \o <<d[(n % 16) + 1]>>

\* hex(n)
Hex(n) == <<"0", "x">> \o HexDigits(n)

\* the k-th value of (hex(i) for i in count(0x100, 0x100))
FakeAddress(k) == Hex(256 * k)

\* the for loop over the matches: `seen` the addresses met so far, k - 1 the
\* values already taken from `addresses`
RECURSIVE AddressLoop(_, _, _, _)
AddressLoop(matches, seen, k, norm) ==
    IF matches = <<>> THEN norm
    ELSE LET address == Head(matches) IN
         IF address \in seen
         THEN AddressLoop(Tail(matches), seen, k, norm)
         ELSE AddressLoop(Tail(matches), seen \cup {address}, k + 1,
                          StrReplace(norm, address, FakeAddress(k)))

\* PythonOutput.normalise_memory_addresses
PyNormaliseMemoryAddresses(out) ==
    AddressLoop(FindAddresses(out, 1), {}, 1, out)

\* GoOutput.normalise_memory_addresses
GoNormaliseMemoryAddresses(out) ==
    AddressLoop(FindAddresses(out, 1), {}, 1, out)

----------------------------------------------------------------------------
(* PythonOutput: traceback and location rules *)

\* (\s.*\n)+ tried from position p: index of the last element consumed by
\* the greedy repetition, p - 1 when not even one line matches.  \s also
\* matches "\n", .* does not.
RECURSIVE IndentedLinesEnd(_, _)
IndentedLinesEnd(s, p) ==
    IF p <= Len(s) /\ IsSpace(s[p]) /\ NextNewline(s, p + 1) # 0
    THEN IndentedLinesEnd(s, NextNewline(s, p + 1) + 1)
    ELSE p - 1

\* does traceback_except_for_last_line match at position i?
TracebackAt(s, i) ==
    /\ i + 1 <= Len(s)
    /\ s[i] = TRACEBACK
    /\ s[i + 1] = "\n"
    /\ IndentedLinesEnd(s, i + 2) >= i + 2

\* re.sub(traceback_except_for_last_line, repl, output)
RECURSIVE SubTraceback(_, _, _)
SubTraceback(s, repl, i) ==
    IF i > Len(s) THEN <<>>
    ELSE IF TracebackAt(s, i)
         THEN repl \o SubTraceback(s, repl, IndentedLinesEnd(s, i + 2) + 1)
         ELSE <<s[i]>> \o SubTraceback(s, repl, i + 1)

\* "Traceback (most recent call last):\n  ...\n"
TracebackPlaceholder == <<TRACEBACK, "\n", " ", " ", ".", ".", ".", "\n">>

\* normalise_traceback with the verbosity 2 branch lost: every verbosity
\* above 0 gets the placeholder
NormaliseTracebackNoVerbatim(out, output_verbosity) ==
    IF output_verbosity = 0 THEN SubTraceback(out, <<>>, 1)
    ELSE SubTraceback(out, TracebackPlaceholder, 1)

\* PythonOutput.normalise_traceback
NormaliseTraceback(out, output_verbosity) ==
    IF output_verbosity = 0 THEN SubTraceback(out, <<>>, 1)
    ELSE IF output_verbosity = 1 THEN SubTraceback(out, TracebackPlaceholder, 1)
    ELSE out

\* does location_info (  File "<string>", line.*\n) match at position i?
LocationAt(s, i) ==
    /\ i + 2 <= Len(s)
    /\ s[i] = " "
    /\ s[i + 1] = " "
    /\ s[i + 2] = FILE_STRING
    /\ NextNewline(s, i + 3) # 0

\* PythonOutput.normalise_location_info: re.sub(location_info, "", output)
RECURSIVE SubLocation(_, _)
SubLocation(s, i) ==
    IF i > Len(s) THEN <<>>
    ELSE IF LocationAt(s, i)
         THEN SubLocation(s, NextNewline(s, i + 3) + 1)
         ELSE <<s[i]>> \o SubLocation(s, i + 1)

NormaliseLocationInfo(out) == SubLocation(out, 1)

----------------------------------------------------------------------------
(* GoOutput: panic and stack-overflow rules (both compiled with re.DOTALL, *)
(* so every .* of the two patterns also runs over newlines)                *)

\* does (panic: .*?\n).* match at position i?
PanicAt(s, i) ==
    /\ i <= Len(s)
    /\ s[i] = PANIC
    /\ NextNewline(s, i + 1) # 0

\* index of the last "\n" at or before position i, 0 when there is none
RECURSIVE LastNewline(_, _)
LastNewline(s, i) ==
    IF i < 1 THEN 0
    ELSE IF s[i] = "\n" THEN i
    ELSE LastNewline(s, i - 1)

\* normalise_panic with a greedy group, (panic: .*\n): the kept text runs
\* to the last newline of the output
NormalisePanicGreedy(out) ==
    IF \E i \in 1..Len(out) : PanicAt(out, i)
    THEN SubSeq(out, 1, LastNewline(out, Len(out)))
    ELSE out

\* GoOutput.normalise_panic: re.sub(panic, r"\1", output); the match runs
\* to the end of the output, so there is at most one substitution
NormalisePanic(out) ==
    IF \E i \in 1..Len(out) : PanicAt(out, i)
    THEN LET i == CHOOSE m \in 1..Len(out) :
                    PanicAt(out, m) /\ \A n \in 1..(m - 1) : ~PanicAt(out, n)
         IN SubSeq(out, 1, NextNewline(out, i + 1))
    ELSE out

\* does stack_overflow match at position i?
\*   runtime: goroutine stack exceeds .* limit\n runtime: .* \n
\*   (fatal error: stack overflow\n) .*
StackOverflowAt(s, i) ==
    /\ i <= Len(s)
    /\ s[i] = RT_EXCEEDS
    /\ \E j \in (i + 1)..Len(s) :
          /\ j + 2 <= Len(s)
          /\ s[j] = LIMIT
          /\ s[j + 1] = "\n"
          /\ s[j + 2] \in {RUNTIME, RT_EXCEEDS}
          /\ \E k \in (j + 3)..Len(s) :
                /\ k + 2 <= Len(s)
                /\ s[k] = "\n"
                /\ s[k + 1] = FATAL
                /\ s[k + 2] = "\n"

\* normalise_stack_overflow with the group around the whole pattern: the
\* substitution puts back all it matched
NormaliseStackOverflowWholeMatch(out) == out

\* GoOutput.normalise_stack_overflow: re.sub(stack_overflow, r"\1", output)
NormaliseStackOverflow(out) ==
    IF \E i \in 1..Len(out) : StackOverflowAt(out, i)
    THEN LET i == CHOOSE m \in 1..Len(out) :
                    StackOverflowAt(out, m)
                    /\ \A n \in 1..(m - 1) : ~StackOverflowAt(out, n)
         IN SubSeq(out, 1, i - 1) \o <<FATAL, "\n">>
    ELSE out

----------------------------------------------------------------------------
(* Normalisation as called by Question.has_ok_output:                      *)
(* output.normalise(output.raw, output_verbosity)                          *)

\* the lines a Python snippet's raw output is made of here
PythonLines ==
    { <<TRACEBACK>>,
      <<" ", "g">>,
      <<>>,
      <<"g">>,
      <<" ", " ", FILE_STRING>>,
      <<" ", " ", FILE_TMP>>,
      <<"0", "x", "2", "0", "0">>,
      <<"0", "x", "1", "0", "0">> }

\* the lines a Go snippet's raw output is made of here
GoLines ==
    { <<PANIC, "g">>,
      <<"g", PANIC>>,
      <<RT_EXCEEDS, LIMIT>>,
      <<RT_EXCEEDS>>,
      <<RUNTIME>>,
      <<FATAL>>,
      <<"g">>,
      <<"0", "x", "2", "0", "0">>,
      <<"0", "x", "1", "0", "0">> }

\* pieces of a line that prints addresses
AddressItems ==
    { <<"0", "x", "1">>,
      <<"0", "x", "1", "0">>,
      <<"0", "x", "1", "0", "0">>,
      <<"0", "x", "2", "0", "0">>,
      <<" ">>,
      <<"g">> }

SeqsUpTo(S, n) == UNION { [1..m -> S] : m \in 0..n }

\* every line ends with "\n"
JoinLines(ls) == Flatten([i \in 1..Len(ls) |-> ls[i] \o <<"\n">>])

RawOutputs(lang) ==
    { JoinLines(ls) :
        ls \in SeqsUpTo(IF lang = "python" THEN PythonLines ELSE GoLines, MaxLines) }
    \cup { Flatten(is) : is \in SeqsUpTo(AddressItems, MaxItems) }

\* PythonOutput.normalise: normalise_memory_addresses
PyMemoryAddresses ==
    /\ language = "python"
    /\ stage = "start"
    /\ normalised' = PyNormaliseMemoryAddresses(given)
    /\ stage' = "addresses"
    /\ UNCHANGED <<language, verbosity, given, pass>>
    /\ UNCHANGED bvars
    /\ UNCHANGED wvars

\* PythonOutput.normalise: normalise_traceback
PyTraceback ==
    /\ language = "python"
    /\ stage = "addresses"
    /\ normalised' = NormaliseTraceback(normalised, verbosity)
    /\ stage' = "traceback"
    /\ UNCHANGED <<language, verbosity, given, pass>>
    /\ UNCHANGED bvars
    /\ UNCHANGED wvars

\* PythonOutput.normalise: normalise_location_info and return
PyLocationInfo ==
    /\ language = "python"
    /\ stage = "traceback"
    /\ normalised' = NormaliseLocationInfo(normalised)
    /\ stage' = "done"
    /\ UNCHANGED <<language, verbosity, given, pass>>
    /\ UNCHANGED bvars
    /\ UNCHANGED wvars

\* GoOutput.normalise: normalise_memory_addresses
GoMemoryAddresses ==
    /\ language = "go"
    /\ stage = "start"
    /\ normalised' = GoNormaliseMemoryAddresses(given)
    /\ stage' = "addresses"
    /\ UNCHANGED <<language, verbosity, given, pass>>
    /\ UNCHANGED bvars
    /\ UNCHANGED wvars

\* GoOutput.normalise: normalise_panic
GoPanic ==
    /\ language = "go"
    /\ stage = "addresses"
    /\ normalised' = NormalisePanic(normalised)
    /\ stage' = "panic"
    /\ UNCHANGED <<language, verbosity, given, pass>>
    /\ UNCHANGED bvars
    /\ UNCHANGED wvars

\* GoOutput.normalise: normalise_stack_overflow and return
GoStackOverflow ==
    /\ language = "go"
    /\ stage = "panic"
    /\ normalised' = NormaliseStackOverflow(normalised)
    /\ stage' = "done"
    /\ UNCHANGED <<language, verbosity, given, pass>>
    /\ UNCHANGED bvars
    /\ UNCHANGED wvars

\* normalise is called again, on what it returned
NormaliseAgain ==
    /\ stage = "done"
    /\ pass < MaxPasses
    /\ given' = normalised
    /\ stage' = "start"
    /\ pass' = pass + 1
    /\ UNCHANGED <<language, verbosity, normalised>>
    /\ UNCHANGED bvars
    /\ UNCHANGED wvars

\* an Output has been built (raw is set) and normalise is entered with it
NormaliseInit ==
    /\ now = 0
    /\ previous = 0
    /\ logs = <<>>
    /\ bpc = "done"
    /\ idx = 0
    /\ output = <<>>
    /\ language \in {"python", "go"}
    /\ verbosity \in 0..2
    /\ raw \in RawOutputs(language)
    /\ given = raw
    /\ normalised = raw
    /\ stage = "start"
    /\ pass = 1
    /\ QuestionIdle /\ EscapeIdle /\ DirectoryIdle /\ RunIdle /\ PoolIdle

NormaliseNext ==
    \/ PyMemoryAddresses
    \/ PyTraceback
    \/ PyLocationInfo
    \/ GoMemoryAddresses
    \/ GoPanic
    \/ GoStackOverflow
    \/ NormaliseAgain

SpecNormalise == NormaliseInit /\ [][NormaliseNext]_vars

----------------------------------------------------------------------------
(* Properties of the timed-output builder *)

\* str(n) as text
RECURSIVE DecimalText(_)
DecimalText(n) ==
    IF n < 0 THEN <<"-">> \o DecimalText(0 - n)
    ELSE IF n < 10
         THEN <<<<"0", "1", "2", "3", "4", "5", "6", "7", "8", "9">>[n + 1]>>
         ELSE DecimalText(n \div 10) \o DecimalText(n % 10)

\* the marker `<~Ns>\n` as text
MarkerText(n) == <<"<", "~">> \o DecimalText(n) \o <<"s", ">", "\n">>

\* elapsed half seconds from the start of the exec to chunk i
RECURSIVE SinceStart(_, _)
SinceStart(ls, i) == IF i = 0 THEN 0 ELSE SinceStart(ls, i - 1) + ls[i].delta

\* the text of chunk i
ChunkText(ls, i) == Decode(ls[i].char)

\* the output with a marker before chunk i exactly when the time since the
\* previous chunk rounds to N # 0
GapMarked(ls) ==
    Flatten([i \in 1..Len(ls) |->
        IF Round(ls[i].delta) # 0
        THEN MarkerText(Round(ls[i].delta)) \o ChunkText(ls, i)
        ELSE ChunkText(ls, i)])

\* the output as the running-previous rule states it, for rounded elapsed
\* times r[1..n]: marker before chunk i exactly when r[i] differs from
\* r[i-1] (from 0 for the first chunk), with N the difference
RunningMarked(ls, r) ==
    Flatten([i \in 1..Len(ls) |->
        LET prev == IF i = 1 THEN 0 ELSE r[i - 1] IN
        IF r[i] # prev
        THEN MarkerText(r[i] - prev) \o ChunkText(ls, i)
        ELSE ChunkText(ls, i)])

LoggedRounded(ls) == [i \in 1..Len(ls) |-> Round(ls[i].delta)]
SinceStartRounded(ls) == [i \in 1..Len(ls) |-> Round(SinceStart(ls, i))]

CrLfToLf(s) == StrReplace(s, <<"\r", "\n">>, <<"\n">>)

\* C1 (as amended): the built output is the chunk texts in their original
\* order, with the marker `<~Ns>\n` immediately before a chunk's text exactly
\* when the time elapsed since the previous chunk (since the start of the
\* exec for the first chunk) rounds to N # 0 (and \r\n then read as \n).
C1_GapMarkers ==
    bpc = "done" => raw = CrLfToLf(GapMarked(logs))

\* C1 witness: chunks "h\r\n" at once and "h\r\n" one second later give
\* "h\n<~1s>\nh\n"
C1_Witness ==
    /\ bpc = "done"
    /\ logs = << [delta |-> 0, char |-> <<104, 13, 10>>],
                 [delta |-> 2, char |-> <<104, 13, 10>>] >>
    /\ raw = <<"h", "\n", "<", "~", "1", "s", ">", "\n", "h", "\n">>

\* C1 (original statement): a marker goes before a chunk exactly when its
\* rounded elapsed time differs from the running previous rounded elapsed
\* time, N being the difference; stated for both readings of "elapsed time"
\* (the value logged with the chunk, or the time since the start), so that
\* a violation refutes either reading.
C1_Original ==
    bpc = "done" =>
        \/ raw = CrLfToLf(RunningMarked(logs, LoggedRounded(logs)))
        \/ raw = CrLfToLf(RunningMarked(logs, SinceStartRounded(logs)))

\* C2 (as amended): whenever the time elapsed since the previous chunk
\* rounds to 0, the chunk's bytes are appended directly after the output
\* built so far, with no marker and no separator.
C2_ZeroGapAppends ==
    [][(bpc = "to_string" /\ idx' = idx + 1 /\ Round(logs[idx'].delta) = 0)
        => output' = output \o logs[idx'].char]_vars

\* C2 witness: "h" and "h\r\n" within the same rounded second give "hh\n"
C2_Witness ==
    /\ bpc = "done"
    /\ logs = << [delta |-> 0, char |-> <<104>>],
                 [delta |-> 1, char |-> <<104, 13, 10>>] >>
    /\ raw = <<"h", "h", "\n">>

\* C2 (original statement): whenever a chunk's rounded elapsed time equals
\* that of the chunk before it, its text is appended directly; required here
\* only of chunks for which both readings of "elapsed time" give equal
\* rounded times, so that a violation refutes either reading.
C2_Original ==
    [][(/\ bpc = "to_string"
        /\ idx' = idx + 1
        /\ idx >= 1
        /\ Round(logs[idx'].delta) = Round(logs[idx].delta)
        /\ Round(SinceStart(logs, idx')) = Round(SinceStart(logs, idx)))
        => output' = output \o logs[idx'].char]_vars

----------------------------------------------------------------------------
(* Properties of the memory-address rule *)

\* is position i the start of a line?
LineStart(s, i) == i = 1 \/ s[i - 1] = "\n"

\* last index of the run of word elements that starts at j (j - 1 when empty)
RECURSIVE WordRunEnd(_, _)
WordRunEnd(t, j) ==
    IF j <= Len(t) /\ StartsWord(t[j]) THEN WordRunEnd(t, j + 1) ELSE j - 1

\* read the result t against the input s: the text outside address tokens
\* must be the same, and each address token of s faces one word of t, its
\* replacement.  Gives the set of <<address, replacement>> pairs met, and
\* whether the two texts could be read against each other at all.
RECURSIVE Replacements(_, _, _, _)
Replacements(s, t, i, j) ==
    IF i > Len(s) THEN [ok |-> j > Len(t), pairs |-> {}]
    ELSE IF AddressAt(s, i)
    THEN LET e == HexRunEnd(s, i + 2)
             w == WordRunEnd(t, j)
             rest == Replacements(s, t, e + 1, w + 1)
         IN [ok |-> w >= j /\ rest.ok,
             pairs |-> {<<SubSeq(s, i, e), SubSeq(t, j, w)>>} \cup rest.pairs]
    ELSE IF j <= Len(t) /\ s[i] = t[j]
    THEN Replacements(s, t, i + 1, j + 1)
    ELSE [ok |-> FALSE, pairs |-> {}]

\* the numbering in first-seen order: the k-th distinct address token is
\* replaced, where it stands, by hex(0x100 * k); nothing else changes.
\* `order` is the sequence of the distinct addresses met so far.
RECURSIVE FirstSeenFrom(_, _, _)
FirstSeenFrom(s, i, order) ==
    IF i > Len(s) THEN <<>>
    ELSE IF AddressAt(s, i)
    THEN LET e == HexRunEnd(s, i + 2)
             a == SubSeq(s, i, e)
         IN IF \E k \in 1..Len(order) : order[k] = a
            THEN FakeAddress(CHOOSE k \in 1..Len(order) : order[k] = a)
                 \o FirstSeenFrom(s, e + 1, order)
            ELSE FakeAddress(Len(order) + 1)
                 \o FirstSeenFrom(s, e + 1, Append(order, a))
    ELSE <<s[i]>> \o FirstSeenFrom(s, i + 1, order)

FirstSeenNumbering(s) == FirstSeenFrom(s, 1, <<>>)

\* C3: within one pass of normalise_memory_addresses, every occurrence of
\* the same raw address gets the same replacement and two distinct raw
\* addresses never get the same replacement.
C3_StableAndDistinct ==
    (stage = "addresses" /\ pass = 1) =>
        LET r == Replacements(given, normalised, 1, 1) IN
        r.ok => \A p \in r.pairs : \A q \in r.pairs :
                    (p[1] = q[1]) <=> (p[2] = q[2])

\* C4: normalise_memory_addresses numbers the addresses in first-seen
\* order, the k-th distinct address token becoming hex(0x100 * k)
\* everywhere, and leaves all other text unchanged.
C4_FirstSeenOrder ==
    (stage = "addresses" /\ pass = 1) =>
        normalised = FirstSeenNumbering(given)

\* C5: normalise is idempotent: applied to what it returned, with the same
\* verbosity, it returns its argument.
C5_Idempotent ==
    (stage = "done" /\ pass >= 2) => normalised = given

----------------------------------------------------------------------------
(* Properties of the Python traceback and location rules *)

\* is the line that starts at p indented (and ended by "\n")?
IndentedLineAt(s, p) ==
    /\ p <= Len(s)
    /\ s[p] \in {" ", "\t"}
    /\ NextNewline(s, p) # 0

\* index of the "\n" that ends the run of indented lines starting at p
\* (p - 1 when the line at p is not indented)
RECURSIVE IndentedRunEnd(_, _)
IndentedRunEnd(s, p) ==
    IF IndentedLineAt(s, p)
    THEN IndentedRunEnd(s, NextNewline(s, p) + 1)
    ELSE p - 1

\* a span: the intro line followed by one or more indented lines
SpanAt(s, i) ==
    /\ LineStart(s, i)
    /\ i + 1 <= Len(s)
    /\ s[i] = TRACEBACK
    /\ s[i + 1] = "\n"
    /\ IndentedRunEnd(s, i + 2) >= i + 2

HasSpan(s) == \E i \in 1..Len(s) : SpanAt(s, i)

\* every span replaced by repl, all other text kept
RECURSIVE SpansReplaced(_, _, _)
SpansReplaced(s, repl, i) ==
    IF i > Len(s) THEN <<>>
    ELSE IF SpanAt(s, i)
         THEN repl \o SpansReplaced(s, repl, IndentedRunEnd(s, i + 2) + 1)
         ELSE <<s[i]>> \o SpansReplaced(s, repl, i + 1)

\* C6: on an output that contains a span, normalise_traceback deletes
\* every span at verbosity 0, replaces it by the intro line and the line
\* "  ..." at verbosity 1, returns its input at verbosity 2; the line after
\* a span and all text outside the spans are left untouched.
C6_TracebackByVerbosity ==
    [][(/\ language = "python"
        /\ stage = "addresses"
        /\ stage' = "traceback"
        /\ HasSpan(normalised))
        => normalised' =
             IF verbosity = 0 THEN SpansReplaced(normalised, <<>>, 1)
             ELSE IF verbosity = 1
                  THEN SpansReplaced(normalised, TracebackPlaceholder, 1)
                  ELSE normalised]_vars

\* C7 (as amended): at verbosity 2 PythonOutput.normalise applies the
\* memory-address rule and the location rule only, no traceback rewriting:
\* normalise(R, 2) = normalise_location_info(normalise_memory_addresses(R)).
C7_Verbosity2 ==
    (language = "python" /\ stage = "done" /\ verbosity = 2) =>
        normalised = NormaliseLocationInfo(PyNormaliseMemoryAddresses(given))

\* C7 witness: at verbosity 2 a traceback keeps its intro line and loses
\* its `File "<string>", line` line
C7_Witness ==
    /\ language = "python"
    /\ stage = "done"
    /\ pass = 1
    /\ verbosity = 2
    /\ given = <<TRACEBACK, "\n", " ", " ", FILE_STRING, "\n", "g", "\n">>
    /\ normalised = <<TRACEBACK, "\n", "g", "\n">>

\* C7 (original statement): at verbosity 2 normalise applies the
\* memory-address rule only: normalise(R, 2) = normalise_memory_addresses(R).
C7_Original ==
    (language = "python" /\ stage = "done" /\ verbosity = 2) =>
        normalised = PyNormaliseMemoryAddresses(given)

\* is there, at i, a line of the form `  File "<location>", line ...`?
LocationLineAt(s, i) ==
    /\ LineStart(s, i)
    /\ i + 2 <= Len(s)
    /\ s[i] = " "
    /\ s[i + 1] = " "
    /\ s[i + 2] \in {FILE_STRING, FILE_TMP}

\* C8: for every verbosity and every location, what PythonOutput.normalise
\* returns has no line of the form `  File "<location>", line <N>...`.
C8_NoLocationLine ==
    (language = "python" /\ stage = "done") =>
        \A i \in 1..Len(normalised) : ~LocationLineAt(normalised, i)

----------------------------------------------------------------------------
(* Properties of the Go panic and stack-overflow rules *)

\* first position of element c in s, 0 when there is none
RECURSIVE FirstOf(_, _, _)
FirstOf(s, c, i) ==
    IF i > Len(s) THEN 0
    ELSE IF s[i] = c THEN i
    ELSE FirstOf(s, c, i + 1)

\* start of the line that holds position i
RECURSIVE LineStartOf(_, _)
LineStartOf(s, i) == IF LineStart(s, i) THEN i ELSE LineStartOf(s, i - 1)

\* is there, at i, a line `panic: <message>` (ended by "\n")?
PanicLineAt(s, i) ==
    /\ LineStart(s, i)
    /\ i <= Len(s)
    /\ s[i] = PANIC
    /\ NextNewline(s, i) # 0

HasPanicLine(s) == \E i \in 1..Len(s) : PanicLineAt(s, i)

\* s up to and including its first line `panic: <message>`
ThroughFirstPanicLine(s) ==
    LET i == CHOOSE m \in 1..Len(s) :
                PanicLineAt(s, m) /\ \A n \in 1..(m - 1) : ~PanicLineAt(s, n)
    IN SubSeq(s, 1, NextNewline(s, i))

\* s up to and including the first line that contains `panic: ` and is
\* ended by "\n"
ThroughFirstLineWithPanic(s) ==
    SubSeq(s, 1, NextNewline(s, FirstOf(s, PANIC, 1)))

\* C9 (as amended): for every output in which `panic: ` occurs on a line
\* (ended by a newline) and `fatal error: stack overflow` does not occur
\* before it, GoOutput.normalise keeps everything up to and including the
\* first line that contains `panic: ` (addresses canonicalised) and removes
\* everything after it; the result is the same for every verbosity.
C9_PanicTruncation ==
    (language = "go" /\ stage = "done") =>
        LET a == GoNormaliseMemoryAddresses(given)
            p == FirstOf(a, PANIC, 1)
        IN (/\ p # 0
            /\ NextNewline(a, p) # 0
            /\ FirstOf(a, FATAL, 1) \notin 1..p)
           => normalised = ThroughFirstLineWithPanic(a)

\* C9 witness: the lines after the panic line are removed, the line before
\* it is kept
C9_Witness ==
    /\ language = "go"
    /\ stage = "done"
    /\ pass = 1
    /\ verbosity = 2
    /\ given = <<"g", "\n", PANIC, "g", "\n", "g", "\n">>
    /\ normalised = <<"g", "\n", PANIC, "g", "\n">>

\* C9 (original statement): for every output containing a line
\* `panic: <message>`, GoOutput.normalise keeps everything up to and
\* including the first such line (addresses canonicalised) and removes
\* everything after it, whatever the verbosity.
C9_Original ==
    (language = "go" /\ stage = "done") =>
        LET a == GoNormaliseMemoryAddresses(given) IN
        HasPanicLine(a) => normalised = ThroughFirstPanicLine(a)

\* do the two `runtime:` diagnostic lines and the line
\* `fatal error: stack overflow` start at i?
DiagnosticsAt(s, i) ==
    /\ LineStart(s, i)
    /\ i <= Len(s)
    /\ s[i] = RT_EXCEEDS
    /\ LET n1 == NextNewline(s, i) IN
          /\ n1 > i + 1
          /\ s[n1 - 1] = LIMIT
          /\ n1 + 1 <= Len(s)
          /\ s[n1 + 1] \in {RUNTIME, RT_EXCEEDS}
          /\ LET n2 == NextNewline(s, n1 + 1) IN
                /\ n2 # 0
                /\ n2 + 2 <= Len(s)
                /\ s[n2 + 1] = FATAL
                /\ s[n2 + 2] = "\n"

HasDiagnostics(s) == \E i \in 1..Len(s) : DiagnosticsAt(s, i)

FirstDiagnostics(s) ==
    CHOOSE m \in 1..Len(s) :
        DiagnosticsAt(s, m) /\ \A n \in 1..(m - 1) : ~DiagnosticsAt(s, n)

\* position of the line `fatal error: stack overflow` of the diagnostics
\* that start at i
FatalOf(s, i) == NextNewline(s, NextNewline(s, i) + 1) + 1

\* C10 (as amended): when the output contains the two `runtime:` diagnostic
\* lines followed by `fatal error: stack overflow`, with no `panic: ` before
\* the fatal-error line and no other `runtime: goroutine stack exceeds`
\* before the diagnostics, GoOutput.normalise removes the two diagnostic
\* lines and everything after the fatal-error line, keeping that line and
\* all output that preceded the diagnostics (addresses canonicalised).
C10_StackOverflowTruncation ==
    (language = "go" /\ stage = "done") =>
        LET a == GoNormaliseMemoryAddresses(given) IN
        HasDiagnostics(a) =>
            LET d == FirstDiagnostics(a) IN
            (/\ FirstOf(a, PANIC, 1) \notin 1..FatalOf(a, d)
             /\ FirstOf(a, RT_EXCEEDS, 1) = d)
            => normalised = SubSeq(a, 1, d - 1) \o <<FATAL, "\n">>

\* C10 witness: the diagnostics and what follows the fatal-error line are
\* removed
C10_Witness ==
    /\ language = "go"
    /\ stage = "done"
    /\ pass = 1
    /\ given = <<RT_EXCEEDS, LIMIT, "\n", RUNTIME, "\n", FATAL, "\n", "g", "\n">>
    /\ normalised = <<FATAL, "\n">>

\* C10 (original statement): when the output contains the two `runtime:`
\* diagnostic lines followed by `fatal error: stack overflow`,
\* GoOutput.normalise removes those two lines and everything after the
\* fatal-error line, keeping that line and all output that preceded the
\* diagnostics (addresses canonicalised).
C10_Original ==
    (language = "go" /\ stage = "done") =>
        LET a == GoNormaliseMemoryAddresses(given) IN
        HasDiagnostics(a) =>
            normalised = SubSeq(a, 1, FirstDiagnostics(a) - 1) \o <<FATAL, "\n">>

----------------------------------------------------------------------------
(* Question.has_ok_output: the comparison of the normalised actual output  *)
(* with the expected output the repository loaded                          *)

\* the normalise of the Output subclass the question's snippet builds
\* (NodeOutput, RubyOutput and RustOutput return the output as it is)
Normalise(lang, out, output_verbosity) ==
    IF lang = "python"
    THEN NormaliseLocationInfo(
             NormaliseTraceback(PyNormaliseMemoryAddresses(out), output_verbosity))
    ELSE IF lang = "go"
    THEN NormaliseStackOverflow(NormalisePanic(GoNormaliseMemoryAddresses(out)))
    ELSE out

HasOkOutputNormalisingGiven(lang, out, output_verbosity, expected) ==
    Normalise(lang, out, output_verbosity)
        = Normalise(lang, expected, output_verbosity)

\* Question.has_ok_output
HasOkOutput(lang, out, output_verbosity, expected) ==
    Normalise(lang, out, output_verbosity) = expected

\* the raw outputs compared here: whole lines, one line fewer than RawOutputs
QuestionOutputs(lang) ==
    { JoinLines(ls) :
        ls \in SeqsUpTo(IF lang = "go" THEN GoLines ELSE PythonLines,
                        MaxLines - 1) }

\* the expected outputs a question of that snippet is loaded with: empty (a
\* fresh output.txt), the raw output itself, or its normalised form
GivenOutputs(lang, out, output_verbosity) ==
    { <<>>, out, Normalise(lang, out, output_verbosity) }

\* the whole of has_ok_output
HasOkOutputCall ==
    /\ stage = "start"
    /\ ok = FALSE
    /\ given' = raw
    /\ normalised' = Normalise(language, raw, verbosity)
    /\ ok' = HasOkOutput(language, raw, verbosity, given_output)
    /\ stage' = "done"
    /\ UNCHANGED <<now, previous, logs, bpc, idx, output, raw>>
    /\ UNCHANGED <<language, verbosity, pass, given_output>>
    /\ UNCHANGED <<evars, dvars, rvars, pvars>>

\* a question has been loaded and its snippet has run (raw is set)
QuestionInit ==
    /\ now = 0
    /\ previous = 0
    /\ logs = <<>>
    /\ bpc = "done"
    /\ idx = 0
    /\ output = <<>>
    /\ language \in {"python", "go", "node"}
    /\ verbosity \in 0..2
    /\ raw \in QuestionOutputs(language)
    /\ given_output \in GivenOutputs(language, raw, verbosity)
    /\ given = <<>>
    /\ normalised = <<>>
    /\ stage = "start"
    /\ pass = 1
    /\ ok = FALSE
    /\ EscapeIdle /\ DirectoryIdle /\ RunIdle /\ PoolIdle

QuestionNext == HasOkOutputCall

SpecQuestion == QuestionInit /\ [][QuestionNext]_vars

\* C11: has_ok_output returns true exactly when normalise(raw output, the
\* question's verbosity) equals the expected output as it was loaded; the
\* expected output is left as loaded and is not normalised for the comparison
C11_ExactComparison ==
    stage = "done" =>
        /\ normalised = Normalise(language, raw, verbosity)
        /\ ok <=> (normalised = given_output)

\* an expected output that would match once normalised, and is rejected
C11_Witness ==
    /\ stage = "done"
    /\ ~ok
    /\ given_output # <<>>
    /\ Normalise(language, given_output, verbosity) = normalised

----------------------------------------------------------------------------
(* Escaping of Anki note fields (repository.py): escape_html,              *)
(* unescape_html, markup_output / markdown_output, markup_code /           *)
(* markdown_code.  Text is kept character by character; only the html tags *)
(* of the field wrappers are single elements.                              *)

MaxPieces == 2      \* a plain text is made of at most MaxPieces pieces

Chars(str) ==
    CASE str = "&amp;" -> <<"&", "a", "m", "p", ";">>
      [] str = "&lt;" -> <<"&", "l", "t", ";">>
      [] str = "&gt;" -> <<"&", "g", "t", ";">>
      [] str = "&nbsp;" -> <<"&", "n", "b", "s", "p", ";">>
      [] str = "&apos;" -> <<"&", "a", "p", "o", "s", ";">>
      [] str = "&quot;" -> <<"&", "q", "u", "o", "t", ";">>
      [] str = "<br>" -> <<"<", "b", "r", ">">>
      [] str = "python" -> <<"p", "y", "t", "h", "o", "n">>
      [] str = "go" -> <<"g", "o">>

PRE_SAMP == "<pre><samp>"
SAMP_PRE == "</samp></pre>"
PRE_CODE_LANG == "<pre><code class=\"lang-"
QUOTE_GT == "\">"
CODE_PRE == "</code></pre>"

\* \w, on the characters that occur here
IsWordChar(c) ==
    c \in {"a", "b", "g", "h", "l", "m", "n", "o", "p", "q", "r", "s", "t",
           "u", "y", "_"}

\* unescape_html: seven chained str.replace, in the order of the source
UnescapeHtml(html) ==
    StrReplace(StrReplace(StrReplace(StrReplace(StrReplace(StrReplace(StrReplace(
        html,
        Chars("<br>"), <<"\n">>),
        Chars("&lt;"), <<"<">>),
        Chars("&gt;"), <<">">>),
        Chars("&nbsp;"), <<" ">>),
        Chars("&amp;"), <<"&">>),
        Chars("&apos;"), <<"'">>),
        Chars("&quot;"), <<"\"">>)

\* escape_html: & first, then <
EscapeHtml(text) ==
    StrReplace(StrReplace(text, <<"&">>, Chars("&amp;")), <<"<">>, Chars("&lt;"))

\* str.removeprefix / str.removesuffix
RemovePrefix(s, pre) ==
    IF OccursAt(s, pre, 1) THEN SubSeq(s, Len(pre) + 1, Len(s)) ELSE s
RemoveSuffix(s, suf) ==
    IF Len(suf) <= Len(s) /\ OccursAt(s, suf, Len(s) - Len(suf) + 1)
    THEN SubSeq(s, 1, Len(s) - Len(suf))
    ELSE s

\* end of the greedy \w+ that starts at position i (i - 1 when there is none)
RECURSIVE WordEnd(_, _)
WordEnd(s, i) ==
    IF i <= Len(s) /\ IsWordChar(s[i]) THEN WordEnd(s, i + 1) ELSE i - 1

\* does <pre><code class="lang-\w+"> match at position i?  \w+ cannot give
\* back characters to let the quote match, the quote is not a word character
OpenTagAt(s, i) ==
    /\ i <= Len(s)
    /\ s[i] = PRE_CODE_LANG
    /\ WordEnd(s, i + 1) >= i + 1
    /\ WordEnd(s, i + 1) + 1 <= Len(s)
    /\ s[WordEnd(s, i + 1) + 1] = QUOTE_GT

\* re.sub(r'<pre><code class="lang-\w+">', "", code)
RECURSIVE SubOpenTag(_, _)
SubOpenTag(s, i) ==
    IF i > Len(s) THEN <<>>
    ELSE IF OpenTagAt(s, i) THEN SubOpenTag(s, WordEnd(s, i + 1) + 2)
    ELSE <<s[i]>> \o SubOpenTag(s, i + 1)

\* markdown_code
MarkdownCode(code) ==
    UnescapeHtml(RemoveSuffix(SubOpenTag(code, 1), <<CODE_PRE>>))

\* markup_code
MarkupCode(code, lng) ==
    <<PRE_CODE_LANG>> \o lng \o <<QUOTE_GT>> \o EscapeHtml(code) \o <<CODE_PRE>>

\* markdown_output
MarkdownOutput(out) ==
    UnescapeHtml(RemoveSuffix(RemovePrefix(out, <<PRE_SAMP>>), <<SAMP_PRE>>))

\* markup_output
MarkupOutput(out) == <<PRE_SAMP>> \o EscapeHtml(out) \o <<SAMP_PRE>>

\* what plain texts are made of: the characters html treats specially,
\* ordinary characters, and entity names and tags written out literally
Pieces ==
    { <<"&">>, <<"<">>, <<">">>, <<"\"">>, <<"'">>, <<"\n">>, <<" ">>,
      <<"a">>, <<";">>,
      Chars("&amp;"), Chars("&lt;"), Chars("&gt;"), Chars("&nbsp;"),
      Chars("&apos;"), Chars("&quot;"), Chars("<br>") }

PlainTexts == { Flatten(ps) : ps \in SeqsUpTo(Pieces, MaxPieces) }

\* the language tags of the snippets' languages
Languages == { Chars("python"), Chars("go") }

EscapeHtmlCall ==
    /\ epc = "start"
    /\ field' = EscapeHtml(plain)
    /\ epc' = "escaped"
    /\ UNCHANGED <<plain, code_lang, back>>
    /\ UNCHANGED <<bvars, nvars, qvars, dvars, rvars, pvars>>

UnescapeHtmlCall ==
    /\ epc = "escaped"
    /\ back' = UnescapeHtml(field)
    /\ epc' = "unescaped"
    /\ UNCHANGED <<plain, code_lang, field>>
    /\ UNCHANGED <<bvars, nvars, qvars, dvars, rvars, pvars>>

MarkupOutputCall ==
    /\ epc = "start"
    /\ field' = MarkupOutput(plain)
    /\ epc' = "output_field"
    /\ UNCHANGED <<plain, code_lang, back>>
    /\ UNCHANGED <<bvars, nvars, qvars, dvars, rvars, pvars>>

MarkdownOutputCall ==
    /\ epc = "output_field"
    /\ back' = MarkdownOutput(field)
    /\ epc' = "output_text"
    /\ UNCHANGED <<plain, code_lang, field>>
    /\ UNCHANGED <<bvars, nvars, qvars, dvars, rvars, pvars>>

MarkupCodeCall ==
    /\ epc = "start"
    /\ field' = MarkupCode(plain, code_lang)
    /\ epc' = "code_field"
    /\ UNCHANGED <<plain, code_lang, back>>
    /\ UNCHANGED <<bvars, nvars, qvars, dvars, rvars, pvars>>

MarkdownCodeCall ==
    /\ epc = "code_field"
    /\ back' = MarkdownCode(field)
    /\ epc' = "code_text"
    /\ UNCHANGED <<plain, code_lang, field>>
    /\ UNCHANGED <<bvars, nvars, qvars, dvars, rvars, pvars>>

\* a plain text and a language tag are about to be written to a note
EscapeInit ==
    /\ now = 0 /\ previous = 0 /\ logs = <<>> /\ bpc = "idle" /\ idx = 0
    /\ output = <<>> /\ raw = <<>>
    /\ language = "python" /\ verbosity = 0 /\ given = <<>>
    /\ normalised = <<>> /\ stage = "idle" /\ pass = 0
    /\ plain \in PlainTexts
    /\ code_lang \in Languages
    /\ field = <<>>
    /\ back = <<>>
    /\ epc = "start"
    /\ QuestionIdle /\ DirectoryIdle /\ RunIdle /\ PoolIdle

EscapeNext ==
    \/ EscapeHtmlCall
    \/ UnescapeHtmlCall
    \/ MarkupOutputCall
    \/ MarkdownOutputCall
    \/ MarkupCodeCall
    \/ MarkdownCodeCall

SpecEscape == EscapeInit /\ [][EscapeNext]_vars

\* C18: escaping round-trips: unescape_html(escape_html(t)) = t,
\* markdown_output(markup_output(t)) = t and
\* markdown_code(markup_code(t, language)) = t, for every plain text t
C18_RoundTrip ==
    epc \in {"unescaped", "output_text", "code_text"} => back = plain

----------------------------------------------------------------------------
(* A run of the command line: cli.app builds a repository and calls        *)
(* check_output or check_formatting with it.  The questions are numbered;  *)
(* a question's id is its index in notes and in programs.                  *)

MaxQuestions == 2   \* the target holds at most MaxQuestions questions

PYTHON_IMAGE == "python:3.13"
GOLANG_IMAGE == "golang:1.25"
EXEC_FAILED == "exec: \"/tmp/main\": no such file or directory"

\* the snippet class Question.__init__ picks from the image name
LanguageOf(image) == IF image = GOLANG_IMAGE THEN "go" ELSE "python"

\* the attributes an Output object has: __init__ sets raw and nothing else
OutputAttributes == {"raw"}

\* the attributes Question.__init__ assigns (snippet.output and snippet.code
\* live on the snippet; `self.output: Output` is an annotation, no value)
QuestionAttributes ==
    {"id", "image", "given_output", "output_verbosity", "compress", "snippet",
     "check_output", "check_formatting"}

\* the members of the Tag enum
TagMembers == {"NO_CHECK_FORMAT", "NO_CHECK_OUTPUT", "NO_COMPRESS", "REVIEW"}

FormatParametersWithCompressed == {"self", "compress", "compressed"}

\* the parameters of Snippet.format, the same in every subclass
FormatParameters == {"self", "compress"}

\* `if interactive:` on the value cli.app passes, the mode string
Truthy(value) == value # ""

\* AnkiConfig on the tags note_to_question keeps: those that start with
\* "snip:", prefix removed.  A tag is a tuple of its colon-separated parts.
SnipTags(tags) == { Tail(t) : t \in { u \in tags : Head(u) = "snip" } }

AnkiVerbosity(tags) ==
    IF \E t \in tags : Head(t) = "output_verbosity"
    THEN (CHOOSE t \in tags : Head(t) = "output_verbosity")[2]
    ELSE 0

\* Snippet.output is a cached_property: nothing is cached at construction
NotRun == [cached |-> FALSE, raw |-> <<>>, by |-> 0]

\* note_to_question
NoteToQuestion(id, note) ==
    LET tags == SnipTags(note.tags)
    IN  [ id |-> id,
          code |-> MarkdownCode(note.code),
          image |-> (CHOOSE t \in tags : Head(t) = "image")[2],
          given_output |-> MarkdownOutput(note.output),
          check_output |-> <<"no_check_output">> \notin tags,
          check_formatting |-> <<"no_check_format">> \notin tags,
          output_verbosity |-> AnkiVerbosity(tags),
          compress |-> <<"no_compress">> \notin tags,
          snippet_output |-> NotRun ]

\* the Question DirectoryRepository.get builds for a folder whose effective
\* configuration is in the note; a missing output.txt reads as ""
FolderToQuestion(id, note) ==
    [ id |-> id,
      code |-> note.code,
      image |-> note.image,
      given_output |-> IF note.has_output THEN note.output ELSE <<>>,
      check_output |-> note.check_output,
      check_formatting |-> note.check_formatting,
      output_verbosity |-> note.output_verbosity,
      compress |-> note.compress,
      snippet_output |-> NotRun ]

\* Repository.get: the questions, in the order of the repository
Load(kind, persisted) ==
    [ i \in 1..Len(persisted) |->
        IF kind = "anki" THEN NoteToQuestion(i, persisted[i])
        ELSE FolderToQuestion(i, persisted[i]) ]

\* DirectoryRepository.get creates the output.txt a folder lacks
Touch(kind, persisted) ==
    IF kind = "anki" THEN persisted
    ELSE [ i \in 1..Len(persisted) |-> [persisted[i] EXCEPT !.has_output = TRUE] ]

\* [question for question in questions if question.<flag>]
RECURSIVE Filter(_, _)
Filter(qs, flag) ==
    IF qs = <<>> THEN <<>>
    ELSE (IF Head(qs)[flag] THEN <<Head(qs)>> ELSE <<>>) \o Filter(Tail(qs), flag)

\* questions_to_check with the condition of the comprehension lost
QuestionsToCheckAll(qs, cmd) == qs

\* questions_to_check: the questions whose flag for the command is set
QuestionsToCheck(qs, cmd) ==
    Filter(qs, IF cmd = "output" THEN "check_output" ELSE "check_formatting")

\* the images a pull can fetch
Registry == {PYTHON_IMAGE, GOLANG_IMAGE}

\* _get_container without the test `image not in self._container_pool`
GetContainerAlwaysNew(containers, d, images, image) ==
    IF image \notin images /\ image \notin Registry
    THEN [ raised |-> TRUE, pool |-> containers, daemon |-> d,
           images |-> images, container |-> 0 ]
    ELSE [ raised |-> FALSE,
           pool |-> (image :> [id |-> Len(d) + 1, binary |-> 0]) @@ containers,
           daemon |-> Append(d, [image |-> image, removed |-> FALSE]),
           images |-> images \cup {image},
           container |-> Len(d) + 1 ]

\* DockerExecutor._get_container: the container the pool holds for the
\* image; the first time the image is asked for, the image is pulled when
\* the host lacks it (the pull raises for an image no registry has) and a
\* container is run from it, with an empty /tmp (binary 0), and pooled.
\* A container is named by its rank among those the daemon was asked to run.
GetContainer(containers, d, images, image) ==
    IF image \in DOMAIN containers
    THEN [ raised |-> FALSE, pool |-> containers, daemon |-> d,
           images |-> images, container |-> containers[image].id ]
    ELSE IF image \notin images /\ image \notin Registry
    THEN [ raised |-> TRUE, pool |-> containers, daemon |-> d,
           images |-> images, container |-> 0 ]
    ELSE [ raised |-> FALSE,
           pool |-> (image :> [id |-> Len(d) + 1, binary |-> 0]) @@ containers,
           daemon |-> Append(d, [image |-> image, removed |-> FALSE]),
           images |-> images \cup {image},
           container |-> Len(d) + 1 ]

\* the executor calls Snippet.output makes, in order
OutputUses(lang) ==
    IF lang = "go" THEN <<"write", "exec_run", "exec_run_timed">>
    ELSE <<"write", "exec_run_timed">>

\* Snippet.output, first access: write the code, build it (Go), run it.
\* The result of the build is not looked at; /tmp/main is whatever the last
\* successful build in that container left.  `by` is the question whose
\* program produced the output, 0 when nothing could be executed.
SnippetOutput(q, containers) ==
    LET created == GetContainer(containers, daemon, local_images, q.image)
        built == IF LanguageOf(q.image) = "go" /\ programs[q.id].builds
                 THEN [created.pool EXCEPT ![q.image].binary = q.id]
                 ELSE created.pool
        by == IF LanguageOf(q.image) = "go" THEN built[q.image].binary ELSE q.id
        ops == OutputUses(LanguageOf(q.image))
    IN  [ raw |-> IF by = 0 THEN <<EXEC_FAILED, "\n">> ELSE programs[by].prints,
          by |-> by,
          pool |-> built,
          daemon |-> created.daemon,
          uses |-> [ n \in 1..Len(ops) |->
                       [op |-> ops[n], image |-> q.image,
                        container |-> created.container] ] ]

\* the layout the formatter gives the snippets it rewrites: two statements
\* with two empty lines between them
CANONICAL == <<"c", "\n", "\n", "\n", "c", "\n">>

\* formatted.replace("\n\n\n", "\n\n")
Compress(text) == StrReplace(text, <<"\n", "\n", "\n">>, <<"\n", "\n">>)

\* what `ruff format` leaves in /tmp/main.py: the canonical layout for code
\* it rewrites (and for that layout with an empty line taken out), the code
\* itself when the code is as the formatter wants it
Formatter(how, code) ==
    IF how = "changed" \/ code \in {CANONICAL, Compress(CANONICAL)}
    THEN CANONICAL
    ELSE code

\* Snippet.format: None (is_none) when the formatter exits with an error,
\* the content of the formatted file otherwise, compressed when asked
Format(q, compress) ==
    IF programs[q.id].formats = "error"
    THEN [is_none |-> TRUE, text |-> <<>>]
    ELSE LET formatted == Formatter(programs[q.id].formats, q.code)
         IN  [is_none |-> FALSE,
              text |-> IF compress THEN Compress(formatted) ELSE formatted]

\* Repository.fix_output
FixOutput(kind, persisted, q) ==
    LET text == Normalise(LanguageOf(q.image), q.snippet_output.raw, q.output_verbosity)
    IN  IF kind = "anki"
        THEN [persisted EXCEPT ![q.id].output = MarkupOutput(text)]
        ELSE [persisted EXCEPT ![q.id].output = text, ![q.id].has_output = TRUE]

\* Repository.fix_formatting: the snippet is formatted again, with the
\* question's own compress flag, and the result is written
FixFormatting(kind, persisted, q) ==
    LET formatted == Format(q, q.compress).text
    IN  IF kind = "anki"
        THEN [persisted EXCEPT ![q.id].code =
                  MarkupCode(formatted, Chars(LanguageOf(q.image)))]
        ELSE [persisted EXCEPT ![q.id].code = formatted]

\* does the fix method raise?  AnkiRepository.fix_formatting reads
\* question.language, after it has formatted and before it writes
FixRaises(kind, fix) ==
    kind = "anki" /\ fix = "fix_formatting" /\ "language" \notin QuestionAttributes

\* Repository.add_tag: DirectoryRepository.add_tag is `pass`;
\* AnkiRepository.add_tag appends tag.value as it is
AddTag(kind, persisted, q, value) ==
    IF kind = "anki"
    THEN [persisted EXCEPT ![q.id].tags = @ \cup {<<value>>}]
    ELSE persisted

\* exit status of the interpreter: app returns None (0); an exception that
\* nothing catches ends the process with status 1
ExitStatus(how) == IF how = "raised" THEN 1 ELSE 0

\* check_output / check_formatting up to the loop: repository.get() and the
\* filter on the check flag
GetQuestions ==
    /\ rpc = "start"
    /\ questions' = QuestionsToCheck(Load(store, notes), command)
    /\ notes' = Touch(store, notes)
    /\ position' = 1
    /\ rpc' = "loop"
    /\ UNCHANGED <<store, programs, pool, command, mode, response,
                   failed, fixed, ignored, prompts, calls, exit_code>>
    /\ UNCHANGED <<bvars, nvars, qvars, evars, dvars, pvars>>

\* the branch of the loops taken after a failure was shown, when
\* `interactive` is true: get_user_input and what follows the answer.
\* `fix` is the call of the fix method for answer "r", `ignore_tag` the Tag
\* member named for answer "i".
AfterPrompt(q, fix, fixed_notes, ignore_tag, ignore_value) ==
    CASE response = "r" /\ ~FixRaises(store, fix) ->
           [ notes |-> fixed_notes,
             fixed |-> Append(fixed, q.id), ignored |-> ignored,
             calls |-> Append(calls, <<fix, q.id>>), raised |-> FALSE ]
      [] response = "r" /\ FixRaises(store, fix) ->
           [ notes |-> notes, fixed |-> fixed, ignored |-> ignored,
             calls |-> Append(calls, <<fix, q.id>>), raised |-> TRUE ]
      [] response = "i" /\ ignore_tag \in TagMembers ->
           [ notes |-> AddTag(store, notes, q, ignore_value),
             fixed |-> fixed, ignored |-> Append(ignored, q.id),
             calls |-> Append(calls, <<"add_tag", q.id>>), raised |-> FALSE ]
      [] response = "i" /\ ignore_tag \notin TagMembers ->
           [ notes |-> notes, fixed |-> fixed, ignored |-> ignored,
             calls |-> calls, raised |-> TRUE ]
      [] response = "v" ->
           [ notes |-> AddTag(store, notes, q, "review"),
             fixed |-> fixed, ignored |-> ignored,
             calls |-> Append(calls, <<"add_tag", q.id>>), raised |-> FALSE ]
      [] OTHER ->
           [ notes |-> notes, fixed |-> fixed, ignored |-> ignored,
             calls |-> calls, raised |-> FALSE ]

\* one iteration of the loop of check_output
CheckOutputStep ==
    /\ rpc = "loop"
    /\ command = "output"
    /\ position <= Len(questions)
    /\ LET run == SnippetOutput(questions[position], pool)
           q == [questions[position] EXCEPT
                    !.snippet_output =
                        [cached |-> TRUE, raw |-> run.raw, by |-> run.by]]
           passed == HasOkOutput(LanguageOf(q.image), run.raw,
                                 q.output_verbosity, q.given_output)
           shown == /\ "normalised" \in OutputAttributes
                    /\ "output" \in QuestionAttributes
           after == AfterPrompt(q, "fix_output", FixOutput(store, notes, q),
                                "NO_CHECK_OUTPUT", "no_check_output")
       IN  /\ pool' = run.pool
           /\ daemon' = run.daemon
           /\ uses' = uses \o run.uses
           /\ questions' = [questions EXCEPT ![position] = q]
           /\ IF passed
              THEN /\ position' = position + 1
                   /\ UNCHANGED <<notes, failed, fixed, ignored, prompts,
                                  calls, rpc, exit_code>>
              ELSE IF ~shown
              THEN \* AttributeError while printing the failure
                   /\ rpc' = "raised"
                   /\ exit_code' = ExitStatus("raised")
                   /\ UNCHANGED <<notes, position, failed, fixed, ignored,
                                  prompts, calls>>
              ELSE IF ~Truthy(mode)
              THEN /\ failed' = Append(failed, q.id)
                   /\ position' = position + 1
                   /\ UNCHANGED <<notes, fixed, ignored, prompts, calls,
                                  rpc, exit_code>>
              ELSE /\ failed' = Append(failed, q.id)
                   /\ prompts' = prompts + 1
                   /\ notes' = after.notes
                   /\ fixed' = after.fixed
                   /\ ignored' = after.ignored
                   /\ calls' = after.calls
                   /\ position' = position + 1
                   /\ UNCHANGED <<rpc, exit_code>>
    /\ UNCHANGED <<store, programs, command, mode, response>>
    /\ UNCHANGED <<local_images, ppc>>
    /\ UNCHANGED <<bvars, nvars, qvars, evars, dvars>>

\* one iteration of the loop of check_formatting; the call is
\* question.snippet.format(compressed=isinstance(repository, AnkiRepository))
CheckFormattingStep ==
    /\ rpc = "loop"
    /\ command = "format"
    /\ position <= Len(questions)
    /\ LET q == questions[position]
           formatted == Format(q, store = "anki")
           after == AfterPrompt(q, "fix_formatting",
                                FixFormatting(store, notes, q),
                                "NO_CHECK_FORMATTING", "no_check_formatting")
       IN  IF "compressed" \notin FormatParameters
           THEN \* TypeError: unexpected keyword argument
                /\ rpc' = "raised"
                /\ exit_code' = ExitStatus("raised")
                /\ UNCHANGED <<notes, position, failed, fixed, ignored,
                               prompts, calls>>
           ELSE IF formatted.is_none
           THEN /\ failed' = Append(failed, q.id)
                /\ position' = position + 1
                /\ UNCHANGED <<notes, fixed, ignored, prompts, calls,
                               rpc, exit_code>>
           ELSE IF formatted.text = q.code
           THEN /\ position' = position + 1
                /\ UNCHANGED <<notes, failed, fixed, ignored, prompts,
                               calls, rpc, exit_code>>
           ELSE IF ~Truthy(mode)
           THEN /\ failed' = Append(failed, q.id)
                /\ position' = position + 1
                /\ UNCHANGED <<notes, fixed, ignored, prompts, calls,
                               rpc, exit_code>>
           ELSE /\ failed' = Append(failed, q.id)
                /\ prompts' = prompts + 1
                /\ notes' = after.notes
                /\ fixed' = after.fixed
                /\ ignored' = after.ignored
                /\ calls' = after.calls
                /\ IF after.raised
                   THEN /\ rpc' = "raised"
                        /\ exit_code' = ExitStatus("raised")
                        /\ UNCHANGED position
                   ELSE /\ position' = position + 1
                        /\ UNCHANGED <<rpc, exit_code>>
    /\ UNCHANGED <<store, programs, pool, command, mode, response, questions>>
    /\ UNCHANGED <<bvars, nvars, qvars, evars, dvars, pvars>>

\* the end of check_output / check_formatting: the summary, `return 1` when
\* failed is not empty and `return 0` otherwise; cli.app drops the value
Return ==
    /\ rpc = "loop"
    /\ position > Len(questions)
    /\ rpc' = "returned"
    /\ exit_code' = ExitStatus("returned")
    /\ UNCHANGED <<store, notes, programs, pool, command, mode, response,
                   questions, position, failed, fixed, ignored, prompts, calls>>
    /\ UNCHANGED <<bvars, nvars, qvars, evars, dvars, pvars>>

\* the texts snippets print and output fields hold in a run
PrintedTexts == { <<"a", "\n">>, <<"0", "x", "1", "\n">> }
StoredTexts == { <<"0", "x", "1", "0", "0", "\n">> }

\* a folder of a directory target, with its effective configuration (the
\* default of DirectoryConfig for the verbosity)
Folder(image, has_output, text, check_out, check_fmt, compress) ==
    [ code |-> <<"c">>, image |-> image,
      has_output |-> has_output, output |-> text,
      check_output |-> check_out, check_formatting |-> check_fmt,
      output_verbosity |-> 1, compress |-> compress ]

\* a note of an Anki collection that carries the target tag
Note(image, text, check_out, check_fmt, compress) ==
    [ code |-> MarkupCode(<<"c">>, Chars(LanguageOf(image))),
      output |-> MarkupOutput(text),
      tags |-> {<<"target">>, <<"snip", "image", image>>}
               \cup (IF check_out THEN {} ELSE {<<"snip", "no_check_output">>})
               \cup (IF check_fmt THEN {} ELSE {<<"snip", "no_check_format">>})
               \cup (IF compress THEN {} ELSE {<<"snip", "no_compress">>}) ]

\* what is persisted for one question, with what its snippet does
Stored(kind, image, has_output, text, check_out, check_fmt, compress) ==
    IF kind = "anki" THEN Note(image, text, check_out, check_fmt, compress)
    ELSE Folder(image, has_output, text, check_out, check_fmt, compress)

OutputCases(kind) ==
    { [ note |-> Stored(kind, image, has_output,
                        IF has_output THEN text ELSE <<>>, check_out, TRUE,
                        kind = "anki"),
        program |-> [prints |-> prints, builds |-> builds, formats |-> "same"],
        image |-> image, has_output |-> has_output ] :
        image \in {PYTHON_IMAGE, GOLANG_IMAGE}, has_output \in BOOLEAN,
        text \in StoredTexts, check_out \in BOOLEAN,
        prints \in PrintedTexts, builds \in BOOLEAN }

FormatCases(kind) ==
    { [ note |-> Stored(kind, PYTHON_IMAGE, TRUE, text, TRUE, check_fmt, compress),
        program |-> [prints |-> <<"a", "\n">>, builds |-> TRUE, formats |-> formats],
        image |-> PYTHON_IMAGE, has_output |-> TRUE ] :
        text \in StoredTexts, check_fmt \in BOOLEAN, compress \in BOOLEAN,
        formats \in {"same", "changed", "error"} }

\* only a Go snippet has a build step; a note always has an output field
Cases(kind, cmd) ==
    { c \in (IF cmd = "output" THEN OutputCases(kind) ELSE FormatCases(kind)) :
        /\ c.image = PYTHON_IMAGE => c.program.builds
        /\ kind = "anki" => c.has_output }

\* cli.app has parsed the arguments and built the repository; no container
\* exists yet
RunInit ==
    /\ now = 0 /\ previous = 0 /\ logs = <<>> /\ bpc = "idle" /\ idx = 0
    /\ output = <<>> /\ raw = <<>>
    /\ language = "python" /\ verbosity = 0 /\ given = <<>>
    /\ normalised = <<>> /\ stage = "idle" /\ pass = 0
    /\ QuestionIdle /\ EscapeIdle /\ DirectoryIdle
    /\ store \in {"directory", "anki"}
    /\ command \in {"output", "format"}
    /\ mode \in {"check", "interactive", "fix"}
    /\ response \in {"r", "i", "v", "m"}
    /\ \E cs \in SeqsUpTo(Cases(store, command), MaxQuestions) :
        /\ notes = [i \in 1..Len(cs) |-> cs[i].note]
        /\ programs = [i \in 1..Len(cs) |-> cs[i].program]
    /\ pool = <<>>
    /\ questions = <<>>
    /\ position = 0
    /\ failed = <<>> /\ fixed = <<>> /\ ignored = <<>>
    /\ prompts = 0
    /\ calls = <<>>
    /\ rpc = "start"
    /\ exit_code = "none"
    /\ daemon = <<>>
    /\ local_images = Registry
    /\ uses = <<>>
    /\ ppc = "idle"

RunNext ==
    \/ GetQuestions
    \/ CheckOutputStep
    \/ CheckFormattingStep
    \/ Return

SpecRun == RunInit /\ [][RunNext]_vars

RunEnded == rpc \in {"returned", "raised"}

----------------------------------------------------------------------------
(* Properties of a run *)

\* the questions of questions_to_check the loop has got to
Reached == { i \in 1..Len(questions) : i <= position }

\* the comparison has_ok_output made for the i-th question to check
OutputOk(i) ==
    HasOkOutput(LanguageOf(questions[i].image), questions[i].snippet_output.raw,
                questions[i].output_verbosity, questions[i].given_output)

\* the i-th question to check was run and its output did not compare equal
OutputFailed(i) == questions[i].snippet_output.cached /\ ~OutputOk(i)

\* the same question loaded again from what is persisted now
Reloaded(i) == Load(store, notes)[questions[i].id]

\* C12: after a failed output check answered with "replace", the persisted
\* expected output is the normalised actual output, and the question, loaded
\* again and compared with the same execution output, passes
C12_ReplaceFixes ==
    (RunEnded /\ command = "output" /\ mode = "interactive" /\ response = "r") =>
        \A i \in Reached :
            OutputFailed(i) =>
                /\ Reloaded(i).given_output =
                       Normalise(LanguageOf(questions[i].image),
                                 questions[i].snippet_output.raw,
                                 questions[i].output_verbosity)
                /\ HasOkOutput(LanguageOf(questions[i].image),
                               questions[i].snippet_output.raw,
                               Reloaded(i).output_verbosity,
                               Reloaded(i).given_output)

\* C13 as stated: in check mode a run never prompts, never calls
\* fix_output, fix_formatting or add_tag, and leaves what is persisted
\* unchanged
C13_Original ==
    [][mode = "check" =>
          /\ prompts' = 0
          /\ calls' = <<>>
          /\ notes' = notes]_vars

\* C13: in check mode a run never prompts and never calls fix_output,
\* fix_formatting or add_tag; every question loads afterwards as it loaded
\* before, and the only change to what is persisted is the empty output.txt
\* that DirectoryRepository.get creates in a folder that has none
C13_CheckModeNeverFixes ==
    [][mode = "check" =>
          /\ prompts' = 0
          /\ calls' = <<>>
          /\ notes' \in {notes, Touch(store, notes)}
          /\ Load(store, notes') = Load(store, notes)]_vars

\* a run in check mode that has met a question with bad output and is over
C13_Witness ==
    /\ mode = "check"
    /\ command = "output"
    /\ RunEnded
    /\ \E i \in Reached : OutputFailed(i)
    /\ prompts = 0
    /\ calls = <<>>

\* the check of the i-th question to check fails: bad output for the output
\* command, a formatter error or a change for the format command
Fails(i) ==
    IF command = "output" THEN OutputFailed(i)
    ELSE programs[questions[i].id].formats # "same"

\* a failure the run met and neither fixed nor marked to be ignored
Unresolved ==
    \E i \in Reached :
        /\ Fails(i)
        /\ \A j \in 1..Len(fixed) : fixed[j] # questions[i].id
        /\ \A j \in 1..Len(ignored) : ignored[j] # questions[i].id

\* C14: the process exits with 0 when every checked question passed and with
\* 1 exactly when a failure is left unresolved after the fix-ups
C14_ExitStatus ==
    RunEnded => (exit_code = 1 <=> Unresolved) /\ exit_code \in {0, 1}

\* C15: a checked question whose formatter fails (Snippet.format gives None)
\* is recorded as failed by check_formatting, with no prompt and no call of
\* fix_formatting or add_tag for it, in every mode
C15_FormatterFailure ==
    (RunEnded /\ command = "format") =>
        \A i \in Reached :
            programs[questions[i].id].formats = "error" =>
                /\ \E j \in 1..Len(failed) : failed[j] = questions[i].id
                /\ \A j \in 1..Len(calls) : calls[j][2] # questions[i].id

\* C16: when the build of a Go snippet fails, no program is run for the
\* question (in particular not a binary an earlier question left in the
\* pooled container), the question does not pass, and its expected output
\* is not replaced
C16_BuildFailure ==
    \A i \in 1..Len(questions) :
        ( /\ questions[i].snippet_output.cached
          /\ LanguageOf(questions[i].image) = "go"
          /\ ~programs[questions[i].id].builds ) =>
            /\ questions[i].snippet_output.by = 0
            /\ ~OutputOk(i)
            /\ \A j \in 1..Len(fixed) : fixed[j] # questions[i].id

\* C17: after a failed check answered with "ignore", the question loaded
\* again from the repository has its check flag false
C17_IgnorePersists ==
    (RunEnded /\ command = "output" /\ mode = "interactive" /\ response = "i") =>
        \A i \in Reached :
            OutputFailed(i) => ~Reloaded(i).check_output

----------------------------------------------------------------------------
(* DirectoryRepository: __init__ reads the root snippet_checker.toml, get   *)
(* walks the target.  A toml file is the function from the keys it sets to *)
(* their values (a missing file sets none); a file name is <<stem, suffix>>.*)

MaxFolders == 2     \* the walk of the target visits at most MaxFolders folders

\* the defaults of the DirectoryConfig dataclass
DirectoryConfig ==
    [ images |-> <<>>, check_formatting |-> TRUE, check_output |-> TRUE,
      output_verbosity |-> 1, compress |-> FALSE ]

\* DirectoryConfig(**kwargs): the keys given, the defaults for the others
NewDirectoryConfig(kwargs) == kwargs @@ DirectoryConfig

MergeRootWins(root, question_config) == root @@ question_config

\* asdict(self.root_config) | question_config: the right operand wins
Merge(root, question_config) == question_config @@ root

SnippetPathsWithoutMain(files) == { f \in files : f[1] = "snippet" }

\* dirpath.glob("snippet.*") + dirpath.glob("main.*")
SnippetPaths(files) ==
    { f \in files : f[1] = "snippet" } \cup { f \in files : f[1] = "main" }

\* DirectoryRepository.get from the i-th folder of the walk on, qs being the
\* questions built so far.  A folder without candidate is skipped, one with
\* several raises; output.txt is created when missing; the image is looked
\* up by the suffix in the merged configuration (KeyError when absent).
RECURSIVE WalkFrom(_, _, _, _)
WalkFrom(folders, i, root, qs) ==
    IF i > Len(folders)
    THEN [raised |-> FALSE, error |-> "", questions |-> qs, folders |-> folders]
    ELSE
    LET folder == folders[i]
        snippet_paths == SnippetPaths(folder.files)
    IN  IF Cardinality(snippet_paths) = 0
        THEN WalkFrom(folders, i + 1, root, qs)
        ELSE IF Cardinality(snippet_paths) > 1
        THEN [raised |-> TRUE, error |-> "multiple snippets",
              questions |-> <<>>, folders |-> folders]
        ELSE
        LET snippet_path == CHOOSE f \in snippet_paths : TRUE
            touched == [folders EXCEPT ![i].has_output = TRUE]
            config == NewDirectoryConfig(Merge(root, folder.toml))
        IN  IF snippet_path[2] \notin DOMAIN config.images
            THEN [raised |-> TRUE, error |-> "KeyError",
                  questions |-> <<>>, folders |-> touched]
            ELSE WalkFrom(touched, i + 1, root,
                     Append(qs,
                         [ id |-> <<i, snippet_path>>,
                           image |-> config.images[snippet_path[2]],
                           given_output |-> IF folder.has_output
                                            THEN folder.output ELSE <<>>,
                           check_output |-> config.check_output,
                           check_formatting |-> config.check_formatting,
                           output_verbosity |-> config.output_verbosity,
                           compress |-> config.compress ]))

\* DirectoryRepository.__init__
Construct ==
    /\ dpc = "start"
    /\ root_config' = NewDirectoryConfig(tree.root_toml)
    /\ dpc' = "constructed"
    /\ UNCHANGED <<tree, got>>
    /\ UNCHANGED <<bvars, nvars, qvars, evars, rvars, pvars>>

\* DirectoryRepository.get, as called first thing by check_output and
\* check_formatting: it returns the questions or raises
Get ==
    /\ dpc = "constructed"
    /\ LET result == WalkFrom(tree.folders, 1, root_config, <<>>)
       IN  /\ got' = [raised |-> result.raised, error |-> result.error,
                      questions |-> result.questions]
           /\ tree' = [tree EXCEPT !.folders = result.folders]
           /\ dpc' = IF result.raised THEN "raised" ELSE "returned"
    /\ UNCHANGED root_config
    /\ UNCHANGED <<bvars, nvars, qvars, evars, rvars, pvars>>

AllImages == [py |-> PYTHON_IMAGE, go |-> GOLANG_IMAGE]

\* root snippet_checker.toml files: none, images only, every key set to
\* the value that is not the default
RootTomls ==
    { <<>>,
      [images |-> AllImages],
      [images |-> AllImages, check_formatting |-> FALSE, check_output |-> FALSE,
       output_verbosity |-> 2, compress |-> TRUE] }

\* a folder's own snippet_checker.toml: none, or one key set
FolderTomls ==
    { <<>> }
    \cup { [check_output |-> b] : b \in BOOLEAN }
    \cup { [check_formatting |-> b] : b \in BOOLEAN }
    \cup { [compress |-> b] : b \in BOOLEAN }
    \cup { [output_verbosity |-> v] : v \in {1, 2} }
    \cup { [images |-> [py |-> "python:3.12"]], [images |-> AllImages] }

\* what a folder holds: no candidate, one (with or without output.txt), two
Layouts ==
    { [files |-> {<<"readme", "md">>}, has_output |-> FALSE, output |-> <<>>],
      [files |-> {<<"snippet", "py">>}, has_output |-> TRUE,
       output |-> <<"a", "\n">>],
      [files |-> {<<"main", "go">>}, has_output |-> FALSE, output |-> <<>>],
      [files |-> {<<"snippet", "py">>, <<"main", "py">>}, has_output |-> FALSE,
       output |-> <<>>] }

Folders ==
    { [files |-> l.files, has_output |-> l.has_output, output |-> l.output,
       toml |-> t] : l \in Layouts, t \in FolderTomls }

\* a target directory, before the repository is constructed on it
DirectoryInit ==
    /\ now = 0 /\ previous = 0 /\ logs = <<>> /\ bpc = "idle" /\ idx = 0
    /\ output = <<>> /\ raw = <<>>
    /\ language = "python" /\ verbosity = 0 /\ given = <<>>
    /\ normalised = <<>> /\ stage = "idle" /\ pass = 0
    /\ QuestionIdle /\ EscapeIdle /\ RunIdle /\ PoolIdle
    /\ \E root_toml \in RootTomls, folders \in SeqsUpTo(Folders, MaxFolders) :
           tree = [root_toml |-> root_toml, folders |-> folders]
    /\ root_config = <<>>
    /\ got = <<>>
    /\ dpc = "start"

DirectoryNext ==
    \/ Construct
    \/ Get

SpecDirectory == DirectoryInit /\ [][DirectoryNext]_vars

\* the value the claim gives a setting of the question of folder f: the
\* folder's own when its toml sets the key, else the root's when the root
\* toml sets it, else the built-in default
Setting(key, f) ==
    IF key \in DOMAIN tree.folders[f].toml THEN tree.folders[f].toml[key]
    ELSE IF key \in DOMAIN tree.root_toml THEN tree.root_toml[key]
    ELSE DirectoryConfig[key]

\* C19: every question get returns has each setting (check_output,
\* check_formatting, output_verbosity, compress, images) from its folder's
\* own snippet_checker.toml when set there, else from the root
\* configuration, else the built-in default
C19_FolderOverridesRoot ==
    dpc = "returned" =>
        \A n \in 1..Len(got.questions) :
            LET q == got.questions[n]
                f == q.id[1]
            IN  /\ q.check_output = Setting("check_output", f)
                /\ q.check_formatting = Setting("check_formatting", f)
                /\ q.output_verbosity = Setting("output_verbosity", f)
                /\ q.compress = Setting("compress", f)
                /\ q.image = Setting("images", f)[q.id[2][2]]

\* a question whose folder sets a key the root sets otherwise, and another
\* setting that comes from the root and is not the default
C19_Witness ==
    /\ dpc = "returned"
    /\ \E n \in 1..Len(got.questions) :
        LET f == got.questions[n].id[1]
        IN  /\ "check_output" \in DOMAIN tree.folders[f].toml
            /\ "check_output" \in DOMAIN tree.root_toml
            /\ tree.folders[f].toml.check_output # tree.root_toml.check_output
            /\ got.questions[n].check_output = tree.folders[f].toml.check_output
            /\ got.questions[n].compress = tree.root_toml.compress
            /\ got.questions[n].compress # DirectoryConfig.compress

\* the folders of the walk that hold more than one candidate snippet file
Ambiguous == { f \in 1..Len(tree.folders) :
                 Cardinality({ p \in tree.folders[f].files :
                                 p[1] \in {"snippet", "main"} }) > 1 }

\* folder f holds one candidate whose suffix has no image in the folder's
\* or the root's images table
Unmapped(f) ==
    \E p \in tree.folders[f].files :
        /\ p[1] \in {"snippet", "main"}
        /\ f \notin Ambiguous
        /\ p[2] \notin DOMAIN Setting("images", f)

----------------------------------------------------------------------------
(* Further properties of the timed-output builder *)

\* the text built so far: the decoded bytes while _to_string runs, raw after
BuiltText == IF bpc = "done" THEN raw ELSE Decode(output)

\* the positions of the text at which a marker starts (no payload here
\* holds a "<")
MarkerStarts(t) == { i \in 1..Len(t) : t[i] = "<" }

\* C21: no marker `<~0s>` is ever produced: the output never contains one,
\* in particular it does not start with one when the first chunk's elapsed
\* time rounds to 0, and every marker in the output has N >= 1.
C21_NoZeroMarker ==
    bpc \in {"to_string", "done"} =>
        /\ ~Contains(BuiltText, MarkerText(0))
        /\ (idx >= 1 /\ Round(logs[1].delta) = 0)
               => ~OccursAt(BuiltText, MarkerText(0), 1)
        /\ \A i \in MarkerStarts(BuiltText) :
               \E n \in 1..MaxTime : OccursAt(BuiltText, MarkerText(n), i)

\* a first chunk after half a second (which rounds to 0) and a second chunk
\* one second later: the output starts with the first chunk's text and has
\* the marker <~1s> before the second
C21_Witness ==
    /\ bpc = "done"
    /\ logs = << [delta |-> 1, char |-> <<104, 13, 10>>],
                 [delta |-> 2, char |-> <<104>>] >>
    /\ raw = <<"h", "\n", "<", "~", "1", "s", ">", "\n", "h">>

\* C22: when every chunk of the sequence has a zero-length payload
\* (the empty sequence included), whatever the elapsed times, the built
\* output is the empty string.
C22_EmptyPayloads ==
    (bpc = "done" /\ \A i \in 1..Len(logs) : logs[i].char = <<>>) => raw = <<>>

\* the byte stream of the exec: the payloads of the chunks, in order
StreamText(ls) == Flatten([i \in 1..Len(ls) |-> ChunkText(ls, i)])

\* how many elements of s are c
RECURSIVE CountOf(_, _)
CountOf(s, c) ==
    IF s = <<>> THEN 0
    ELSE (IF Head(s) = c THEN 1 ELSE 0) + CountOf(Tail(s), c)

\* C23: the built raw output contains no carriage-return-newline pair, and
\* every \r\n of the byte stream appears in it as a single \n (the carriage
\* returns left are those of the stream that no newline follows).
C23_NoCrLf ==
    bpc = "done" =>
        /\ ~Contains(raw, <<"\r", "\n">>)
        /\ CountOf(raw, "\r") = CountOf(CrLfToLf(StreamText(logs)), "\r")

----------------------------------------------------------------------------
(* Further properties of a run *)

\* the i-th question to check has a failure that can be fixed: bad output,
\* or code the formatter succeeded on and changed
Fixable(i) ==
    IF command = "output" THEN OutputFailed(i)
    ELSE programs[questions[i].id].formats = "changed"

\* C24: in fix mode every fixable failure the run meets is fixed, that is
\* fix_output / fix_formatting is called for it, and the user is never
\* prompted.
C24_FixModeFixes ==
    (RunEnded /\ mode = "fix") =>
        /\ prompts = 0
        /\ \A i \in Reached :
               Fixable(i) =>
                   \E j \in 1..Len(calls) :
                       /\ calls[j][1] \in {"fix_output", "fix_formatting"}
                       /\ calls[j][2] = questions[i].id

----------------------------------------------------------------------------
(* DockerExecutor: the container pool shared by all snippets of a process  *)
(* (a class attribute), used by write, exec_run and exec_run_timed and     *)
(* emptied by cleanup, which is registered with atexit                     *)

MaxUses == 3        \* the process makes at most MaxUses executor calls

\* the images asked for: two a registry has, one no registry has
PoolImages == Registry \cup {"nosuch:0"}

\* what write, exec_run and exec_run_timed have in common: the first
\* statement gets the container; when that raises nothing catches it
Use(op, image) ==
    LET result == GetContainer(pool, daemon, local_images, image)
    IN  /\ ppc = "running"
        /\ Len(uses) < MaxUses
        /\ pool' = result.pool
        /\ daemon' = result.daemon
        /\ local_images' = result.images
        /\ IF result.raised
           THEN ppc' = "raised" /\ UNCHANGED uses
           ELSE /\ uses' = Append(uses, [op |-> op, image |-> image,
                                         container |-> result.container])
                /\ UNCHANGED ppc
        /\ UNCHANGED <<store, notes, programs, command, mode, response,
                       questions, position, failed, fixed, ignored, prompts,
                       calls, rpc, exit_code>>
        /\ UNCHANGED <<bvars, nvars, qvars, evars, dvars>>

\* DockerExecutor.write
Write == \E image \in PoolImages : Use("write", image)

\* DockerExecutor.exec_run
ExecRun == \E image \in PoolImages : Use("exec_run", image)

\* DockerExecutor.exec_run_timed
ExecRunTimed == \E image \in PoolImages : Use("exec_run_timed", image)

\* DockerExecutor.cleanup, called when the interpreter exits (normally or
\* after an exception nothing caught): every pooled container is removed,
\* then the pool is cleared
Cleanup ==
    /\ ppc \in {"running", "raised"}
    /\ daemon' = [ i \in 1..Len(daemon) |->
                     IF \E image \in DOMAIN pool : pool[image].id = i
                     THEN [daemon[i] EXCEPT !.removed = TRUE]
                     ELSE daemon[i] ]
    /\ pool' = <<>>
    /\ ppc' = "exited"
    /\ UNCHANGED <<local_images, uses>>
    /\ UNCHANGED <<store, notes, programs, command, mode, response,
                   questions, position, failed, fixed, ignored, prompts,
                   calls, rpc, exit_code>>
    /\ UNCHANGED <<bvars, nvars, qvars, evars, dvars>>

\* the module has been imported: the pool is empty, no container runs; the
\* host holds some of the images already
PoolInit ==
    /\ now = 0 /\ previous = 0 /\ logs = <<>> /\ bpc = "idle" /\ idx = 0
    /\ output = <<>> /\ raw = <<>>
    /\ language = "python" /\ verbosity = 0 /\ given = <<>>
    /\ normalised = <<>> /\ stage = "idle" /\ pass = 0
    /\ QuestionIdle /\ EscapeIdle /\ DirectoryIdle /\ RunIdle
    /\ daemon = <<>>
    /\ local_images \in SUBSET Registry
    /\ uses = <<>>
    /\ ppc = "running"

PoolNext ==
    \/ Write
    \/ ExecRun
    \/ ExecRunTimed
    \/ Cleanup

SpecPool == PoolInit /\ [][PoolNext]_vars

\* the containers the daemon runs (asked for and not removed) of an image
Live(image) ==
    { i \in 1..Len(daemon) : daemon[i].image = image /\ ~daemon[i].removed }

\* the images the calls made so far asked for
Requested == { uses[n].image : n \in 1..Len(uses) }

\* C25: after any sequence of write / exec_run / exec_run_timed calls the
\* pool holds exactly one container per distinct image requested so far; a
\* container is created only on the first use of its image and every later
\* use gets that same container; after cleanup every container that was
\* pooled is removed and the pool is empty.
C25_OnePerImage ==
    /\ ppc \in {"running", "raised"} =>
          /\ DOMAIN pool = Requested
          /\ \A image \in DOMAIN pool : Live(image) = {pool[image].id}
          /\ Len(daemon) = Cardinality(Requested)
          /\ \A n \in 1..Len(uses) : uses[n].container = pool[uses[n].image].id
    /\ ppc = "exited" =>
          /\ pool = <<>>
          /\ Len(daemon) = Cardinality(Requested)
          /\ \A i \in 1..Len(daemon) : daemon[i].removed

\* three calls on two images, the second image used twice, then the exit:
\* two containers were created and both are removed
C25_Witness ==
    /\ ppc = "exited"
    /\ Len(uses) = 3
    /\ uses[1].image = PYTHON_IMAGE
    /\ uses[2].image = GOLANG_IMAGE
    /\ uses[3].image = GOLANG_IMAGE
    /\ uses[2].container = uses[3].container
    /\ Len(daemon) = 2
    /\ \A i \in 1..Len(daemon) : daemon[i].removed

----------------------------------------------------------------------------
(* Further properties of normalise *)

\* the rules normalise applies after the memory-address rule
Truncation(lang, out, output_verbosity) ==
    IF lang = "python"
    THEN NormaliseLocationInfo(NormaliseTraceback(out, output_verbosity))
    ELSE NormaliseStackOverflow(NormalisePanic(out))

\* C26: normalise canonicalises the addresses first and truncates after:
\* PythonOutput.normalise(R, v) =
\*   normalise_location_info(normalise_traceback(normalise_memory_addresses(R), v)),
\* GoOutput.normalise(R) =
\*   normalise_stack_overflow(normalise_panic(normalise_memory_addresses(R))),
\* so that each address gets the synthetic value of its first-seen position
\* in the raw output, addresses inside spans deleted later being counted.
C26_RuleOrder ==
    (stage = "done" /\ pass = 1) =>
        /\ normalised =
             Truncation(language,
                        IF language = "python"
                        THEN PyNormaliseMemoryAddresses(given)
                        ELSE GoNormaliseMemoryAddresses(given),
                        verbosity)
        /\ normalised = Truncation(language, FirstSeenNumbering(given), verbosity)

\* a raw output with nothing for normalise to rewrite: no address token, no
\* source-location line, and for Python no traceback span (the intro line
\* followed by indented lines), for Go no `panic: ` and no
\* `runtime: goroutine stack exceeds` anywhere
NothingToNormalise(lang, s) ==
    /\ FindAddresses(s, 1) = <<>>
    /\ \A i \in 1..Len(s) : ~LocationLineAt(s, i)
    /\ lang = "python" => ~HasSpan(s)
    /\ lang = "go" => FirstOf(s, PANIC, 1) = 0 /\ FirstOf(s, RT_EXCEEDS, 1) = 0

\* C27: a raw output that holds no address token, no traceback, panic or
\* stack-overflow span and no source-location line comes back from normalise
\* as it is, at every verbosity, its trailing newlines included.
C27_NoTrim ==
    (stage = "done" /\ pass = 1 /\ NothingToNormalise(language, given))
        => normalised = given

----------------------------------------------------------------------------
(* Further properties of a run: the check flags and the order of the loop *)

\* the flag the command looks at
CheckFlag == IF command = "output" THEN "check_output" ELSE "check_formatting"

\* the ids of the questions of the repository whose flag is true
Flagged == { i \in 1..Len(notes) : Load(store, notes)[i][CheckFlag] }

\* the ids a list of the run (failed, fixed, ignored) holds
IdsOf(list) == { list[j] : j \in 1..Len(list) }

\* the executor calls the execution of the first n questions to check makes
RECURSIVE ExecutionUses(_)
ExecutionUses(n) ==
    IF n = 0 THEN 0
    ELSE ExecutionUses(n - 1)
         + (IF questions[n].snippet_output.cached
            THEN Len(OutputUses(LanguageOf(questions[n].image))) ELSE 0)

\* the questions the loop has dealt with or is dealing with
Started == { questions[n].id : n \in Reached }

\* C28: a question whose check flag (check_output for check_output,
\* check_formatting for check_formatting) is false is never executed, never
\* compared and never among failed, fixed or ignored; the other questions
\* are processed one at a time in the order of the repository, each at most
\* once, a question being started only when the one before it is done with
\* (its prompt answered).
C28_FlagsHonoured ==
    /\ [](rpc # "start" =>
            /\ { questions[n].id : n \in 1..Len(questions) } = Flagged
            /\ \A m, n \in 1..Len(questions) :
                   m < n => questions[m].id < questions[n].id
            /\ \A n \in 1..Len(questions) :
                   questions[n].snippet_output.cached => n \in Reached
            /\ Len(uses) = ExecutionUses(Len(questions))
            /\ \A u \in 1..Len(uses) :
                   \E n \in Reached : uses[u].image = questions[n].image
            /\ IdsOf(failed) \cup IdsOf(fixed) \cup IdsOf(ignored) \subseteq Started
            /\ \A j \in 1..Len(calls) : calls[j][2] \in Started
            /\ prompts <= Cardinality(Started))
    /\ [][rpc = "loop" =>
            /\ position' \in {position, position + 1}
            /\ \A n \in 1..Len(questions) :
                   n # position => questions'[n] = questions[n]
            /\ prompts' \in {prompts, prompts + 1}
            /\ position' = position => rpc' \in {"raised", "returned"}]_vars

\* a run over a repository of two questions, the first with its flag false:
\* only the second was executed, once, and the run is over
C28_Witness ==
    /\ rpc = "returned"
    /\ command = "output"
    /\ Len(notes) = 2
    /\ Flagged = {2}
    /\ Len(questions) = 1
    /\ questions[1].id = 2
    /\ questions[1].snippet_output.cached
    /\ LanguageOf(questions[1].image) = "go"
    /\ Len(uses) = 3

\* a second formatting check of the i-th question to check, loaded again
\* from what is persisted now, passes: the formatter succeeds and what
\* check_formatting compares the code with is the code
FormatCheckPasses(i) ==
    LET formatted == Format(Reloaded(i), store = "anki")
    IN  ~formatted.is_none /\ formatted.text = Reloaded(i).code

\* C29: when a formatting check fails for a question whose formatter
\* succeeded and the answer is "replace", fix_formatting completes without
\* error and persists the formatted code, and a formatting check of the
\* question made afterwards passes, whatever the compress flag and the store.
C29_FormatFixConverges ==
    (RunEnded /\ command = "format" /\ mode = "interactive" /\ response = "r") =>
        \A i \in Reached :
            programs[questions[i].id].formats = "changed" =>
                /\ rpc # "raised"
                /\ questions[i].id \in IdsOf(fixed)
                /\ Reloaded(i).code \in { Format(questions[i], c).text : c \in BOOLEAN }
                /\ FormatCheckPasses(i)

\* C30: a snippet is executed at most once per question in a run, and after
\* a failed output check answered with "replace" the failure has been
\* displayed and the expected output persisted is exactly the normalised
\* output of that one execution, the one that was compared and displayed.
C30_SingleExecution ==
    /\ rpc # "start" => Len(uses) = ExecutionUses(Len(questions))
    /\ (RunEnded /\ command = "output" /\ mode = "interactive" /\ response = "r") =>
          \A i \in Reached :
              OutputFailed(i) =>
                  /\ questions[i].id \in IdsOf(failed)
                  /\ questions[i].id \in IdsOf(fixed)
                  /\ Reloaded(i).given_output =
                         Normalise(LanguageOf(questions[i].image),
                                   questions[i].snippet_output.raw,
                                   questions[i].output_verbosity)

====
